---- MODULE Spec2Model ----
(***************************************************************************)
(* Model of the JukoRagApp retrieval and ingestion pipeline:               *)
(*   - _retrieve_internal / retrieve           (src/api/chat.py)            *)
(*   - process_document_endpoint               (src/api/document_processing.py) *)
(*   - extract_documents_from_file             (src/api/utils/extraction.py) *)
(*                                                                         *)
(* Text is kept run-length encoded: a text is a sequence of runs           *)
(* [c |-> character, n |-> repetitions] in which adjacent runs have        *)
(* different characters, so that two texts are equal exactly when their    *)
(* encodings are equal and the program's real sizes (200, 800, 1500) can   *)
(* be used unchanged.                                                      *)
(***************************************************************************)
EXTENDS Integers, Sequences, FiniteSets, TLC

\* ------------------------------------------------------------------------
\* Text (Python str) as canonical run-length encoded sequences
\* ------------------------------------------------------------------------
SP == " "
NL == "\n"

Run(c, n) == [c |-> c, n |-> n]

\* append a run to a canonical text, keeping it canonical
AppendRun(t, r) ==
    IF r.n = 0 THEN t
    ELSE IF t # <<>> /\ t[Len(t)].c = r.c
         THEN [t EXCEPT ![Len(t)] = Run(r.c, t[Len(t)].n + r.n)]
         ELSE Append(t, r)

\* Python: a + b (both canonical: only the runs that meet can merge)
Concat(a, b) ==
    IF a = <<>> THEN b
    ELSE IF b = <<>> THEN a
    ELSE IF a[Len(a)].c = b[1].c
         THEN SubSeq(a, 1, Len(a) - 1) \o <<Run(b[1].c, a[Len(a)].n + b[1].n)>> \o Tail(b)
         ELSE a \o b

RECURSIVE FromChars(_)
\* a string literal, written as the sequence of its characters
FromChars(cs) ==
    IF cs = <<>> THEN <<>>
    ELSE IF Len(cs) = 1 THEN <<Run(cs[1], 1)>>
    ELSE LET h == Len(cs) \div 2
         IN  Concat(FromChars(SubSeq(cs, 1, h)), FromChars(SubSeq(cs, h + 1, Len(cs))))

RECURSIVE RunsLen(_, _, _)
\* the characters of runs i..j of t
RunsLen(t, i, j) ==
    IF i > j THEN 0
    ELSE IF i = j THEN t[i].n
    ELSE LET h == (i + j) \div 2 IN RunsLen(t, i, h) + RunsLen(t, h + 1, j)

\* Python: len(text)
TextLen(t) == RunsLen(t, 1, Len(t))

\* the largest element of a non-empty set of numbers
MaxOf(S) == CHOOSE x \in S : \A y \in S : y <= x

\* Python: text[:k]
Take(t, k) ==
    IF k <= 0 THEN <<>>
    ELSE IF k >= TextLen(t) THEN t
    ELSE LET j == MaxOf({x \in 0..(Len(t) - 1) : RunsLen(t, 1, x) < k})
         IN  SubSeq(t, 1, j) \o <<Run(t[j + 1].c, k - RunsLen(t, 1, j))>>

\* Python: text[k:]
Drop(t, k) ==
    IF k <= 0 THEN t
    ELSE IF k >= TextLen(t) THEN <<>>
    ELSE LET j == MaxOf({x \in 0..(Len(t) - 1) : RunsLen(t, 1, x) <= k})
             rem == k - RunsLen(t, 1, j)
         IN  IF rem = 0 THEN SubSeq(t, j + 1, Len(t))
             ELSE <<Run(t[j + 1].c, t[j + 1].n - rem)>> \o SubSeq(t, j + 2, Len(t))

IsSpaceChar(c) == c \in {SP, NL}

RECURSIVE LStrip(_)
LStrip(t) == IF t # <<>> /\ IsSpaceChar(Head(t).c) THEN LStrip(Tail(t)) ELSE t

RECURSIVE RStrip(_)
RStrip(t) == IF t # <<>> /\ IsSpaceChar(t[Len(t)].c)
             THEN RStrip(SubSeq(t, 1, Len(t) - 1)) ELSE t

\* Python: text.strip()
Strip(t) == RStrip(LStrip(t))

\* Python: text.startswith(p)
StartsWith(t, p) == Take(t, TextLen(p)) = p

\* the last k characters of a text of n characters are p
EndsAt(t, n, p, k) == n >= k /\ Drop(t, n - k) = p

\* Python: text.endswith(p)
EndsWith(t, p) == EndsAt(t, TextLen(t), p, TextLen(p))

LowerChar(c) ==
    CASE c = "A" -> "a" [] c = "B" -> "b" [] c = "C" -> "c" [] c = "D" -> "d"
      [] c = "E" -> "e" [] c = "F" -> "f" [] c = "G" -> "g" [] c = "H" -> "h"
      [] c = "I" -> "i" [] c = "J" -> "j" [] c = "K" -> "k" [] c = "L" -> "l"
      [] c = "M" -> "m" [] c = "N" -> "n" [] c = "O" -> "o" [] c = "P" -> "p"
      [] c = "Q" -> "q" [] c = "R" -> "r" [] c = "S" -> "s" [] c = "T" -> "t"
      [] c = "U" -> "u" [] c = "V" -> "v" [] c = "W" -> "w" [] c = "X" -> "x"
      [] c = "Y" -> "y" [] c = "Z" -> "z" [] OTHER -> c

RECURSIVE Lower(_)
\* Python: text.lower()
Lower(t) ==
    IF t = <<>> THEN <<>>
    ELSE IF Len(t) = 1 THEN <<Run(LowerChar(t[1].c), t[1].n)>>
    ELSE LET h == Len(t) \div 2
         IN  Concat(Lower(SubSeq(t, 1, h)), Lower(SubSeq(t, h + 1, Len(t))))

\* regex \w : letters, digits and underscore
IsWordChar(c) == c \notin {SP, NL, ".", ":", ",", "-", "%", "/"}

\* kw occurs in t as a substring (both canonical, kw non-empty)
Contains(t, kw) ==
    LET m == Len(kw) IN
    \E i \in 1..Len(t) :
        /\ i + m - 1 <= Len(t)
        /\ IF m = 1
           THEN t[i].c = kw[1].c /\ t[i].n >= kw[1].n
           ELSE /\ t[i].c = kw[1].c /\ t[i].n >= kw[1].n
                /\ t[i + m - 1].c = kw[m].c /\ t[i + m - 1].n >= kw[m].n
                /\ \A j \in 2..(m - 1) : t[i + j - 1] = kw[j]

RECURSIVE WordsFrom(_, _)
\* the maximal runs of word characters of t, in order; cur is the word being read
WordsFrom(t, cur) ==
    IF t = <<>> THEN (IF cur = <<>> THEN <<>> ELSE <<cur>>)
    ELSE IF IsWordChar(Head(t).c) THEN WordsFrom(Tail(t), Append(cur, Head(t)))
    ELSE (IF cur = <<>> THEN <<>> ELSE <<cur>>) \o WordsFrom(Tail(t), <<>>)

RECURSIVE JoinWith(_, _)
\* Python: sep.join(ls)
JoinWith(ls, sep) ==
    IF ls = <<>> THEN <<>>
    ELSE IF Len(ls) = 1 THEN ls[1]
    ELSE Concat(Concat(JoinWith(SubSeq(ls, 1, Len(ls) \div 2), sep), sep),
                JoinWith(SubSeq(ls, Len(ls) \div 2 + 1, Len(ls)), sep))

\* Python: s[:k] on a list
Prefix(s, k) == SubSeq(s, 1, IF Len(s) < k THEN Len(s) ELSE k)

Range(s) == {s[i] : i \in 1..Len(s)}

\* ------------------------------------------------------------------------
\* Bounds of the model
\* ------------------------------------------------------------------------
\* number of ingestion runs started in one behaviour
MaxRuns == 2

\* ------------------------------------------------------------------------
\* Values
\* ------------------------------------------------------------------------
\* Python None
None == "None"
\* a key that a metadata dict does not hold: for string, number and text values
Absent == "absent"
AbsentInt == -1
AbsentText == <<[c |-> "absent", n |-> 0]>>
\* a footer without a page number (None)
NoFooter == 0

OrgA == "orgA"
OrgB == "orgB"
Orgs == {OrgA, OrgB}

\* words used in file names, contents and queries
W_aaa == <<Run("a", 3)>>
W_bbb == <<Run("b", 3)>>
W_ccc == <<Run("c", 3)>>
W_ddd == <<Run("d", 3)>>
W_the == FromChars(<<"t", "h", "e">>)
Blank == <<Run(SP, 1)>>
Words(ws) == JoinWith(ws, Blank)

Name_csv == FromChars(<<"a", ".", "c", "s", "v">>)
Name_pdf == FromChars(<<"b", ".", "p", "d", "f">>)
Name_txt == FromChars(<<"c", ".", "t", "x", "t">>)
Name_xlsx == FromChars(<<"d", ".", "x", "l", "s", "x">>)
Name_Unknown == FromChars(<<"U", "n", "k", "n", "o", "w", "n">>)

\* ------------------------------------------------------------------------
\* Document registry (table "documents"): id -> record
\* ------------------------------------------------------------------------
DocIds == {"d1", "d2", "d3", "d4", "d5", "d6"}

Documents == [d \in DocIds |->
    CASE d = "d1" -> [id |-> "d1", organization_id |-> OrgA, name |-> Name_csv,
                      file_type |-> "text/csv", file_url |-> "url1"]
      [] d = "d2" -> [id |-> "d2", organization_id |-> OrgB, name |-> Name_pdf,
                      file_type |-> "application/pdf", file_url |-> "url2"]
      [] d = "d3" -> [id |-> "d3", organization_id |-> OrgA, name |-> Name_pdf,
                      file_type |-> "application/pdf", file_url |-> "url3"]
      [] d = "d4" -> [id |-> "d4", organization_id |-> OrgB, name |-> Name_xlsx,
                      file_type |-> "", file_url |-> "url4"]
      [] d = "d5" -> [id |-> "d5", organization_id |-> OrgA, name |-> Name_txt,
                      file_type |-> "text/plain", file_url |-> "url5"]
      [] d = "d6" -> [id |-> "d6", organization_id |-> OrgA, name |-> Name_txt,
                      file_type |-> "text/plain", file_url |-> None]]

\* documents.select("id").eq("organization_id", org)
OrgDocIds(org) == {d \in DocIds : Documents[d].organization_id = org}

\* ------------------------------------------------------------------------
\* Chunk store (table "document_sections")
\* ------------------------------------------------------------------------
NoMeta == [document_id |-> Absent, file_type |-> Absent, source |-> AbsentText,
           page |-> AbsentInt, page_number_footer |-> AbsentInt, actual_page |-> AbsentInt,
           project_description |-> AbsentText, is_sparse_text |-> Absent,
           extraction_method |-> Absent, row |-> AbsentInt,
           row_start |-> AbsentInt, row_end |-> AbsentInt]

\* embedding model text-embedding-3-small, as a deterministic function of the text
Embed(t) == [c |-> IF t = <<>> THEN "" ELSE LowerChar(t[1].c), n |-> TextLen(t) % 4]

\* contents longer than the deduplication key that agree on their first 200 characters
Long1 == Concat(Words(<<W_aaa>>), <<Run(SP, 1), Run("z", 250)>>)
Long2 == Concat(Words(<<W_aaa>>), <<Run(SP, 1), Run("z", 300)>>)
\* differs from Long1 at character 200
Long3 == Concat(Words(<<W_aaa>>), <<Run(SP, 1), Run("z", 195), Run("y", 60)>>)

\* ------------------------------------------------------------------------
\* _retrieve_internal: helpers
\* ------------------------------------------------------------------------
\* the stopword set of the keyword search
Stopwords == {
    FromChars(<<"t", "h", "e">>),
    FromChars(<<"a", "n", "d">>),
    FromChars(<<"f", "o", "r">>),
    FromChars(<<"a", "r", "e">>),
    FromChars(<<"b", "u", "t">>),
    FromChars(<<"n", "o", "t">>),
    FromChars(<<"y", "o", "u">>),
    FromChars(<<"a", "l", "l">>),
    FromChars(<<"c", "a", "n">>),
    FromChars(<<"h", "e", "r">>),
    FromChars(<<"w", "a", "s">>),
    FromChars(<<"o", "n", "e">>),
    FromChars(<<"o", "u", "r">>),
    FromChars(<<"o", "u", "t">>),
    FromChars(<<"d", "a", "y">>),
    FromChars(<<"g", "e", "t">>),
    FromChars(<<"h", "a", "s">>),
    FromChars(<<"h", "i", "m">>),
    FromChars(<<"h", "i", "s">>),
    FromChars(<<"h", "o", "w">>),
    FromChars(<<"i", "t", "s">>),
    FromChars(<<"m", "a", "y">>),
    FromChars(<<"n", "e", "w">>),
    FromChars(<<"n", "o", "w">>),
    FromChars(<<"o", "l", "d">>),
    FromChars(<<"s", "e", "e">>),
    FromChars(<<"t", "w", "o">>),
    FromChars(<<"w", "a", "y">>),
    FromChars(<<"w", "h", "o">>),
    FromChars(<<"b", "o", "y">>),
    FromChars(<<"d", "i", "d">>),
    FromChars(<<"s", "h", "e">>),
    FromChars(<<"u", "s", "e">>),
    FromChars(<<"m", "a", "n", "y">>),
    FromChars(<<"t", "h", "a", "n">>),
    FromChars(<<"t", "h", "e", "m">>),
    FromChars(<<"t", "h", "e", "s", "e">>),
    FromChars(<<"s", "o">>),
    FromChars(<<"s", "o", "m", "e">>),
    FromChars(<<"w", "o", "u", "l", "d">>),
    FromChars(<<"m", "a", "k", "e">>),
    FromChars(<<"l", "i", "k", "e">>),
    FromChars(<<"i", "n", "t", "o">>),
    FromChars(<<"t", "i", "m", "e">>),
    FromChars(<<"l", "o", "o", "k">>),
    FromChars(<<"m", "o", "r", "e">>),
    FromChars(<<"w", "r", "i", "t", "e">>),
    FromChars(<<"g", "o">>),
    FromChars(<<"n", "u", "m", "b", "e", "r">>),
    FromChars(<<"n", "o">>),
    FromChars(<<"c", "o", "u", "l", "d">>),
    FromChars(<<"p", "e", "o", "p", "l", "e">>),
    FromChars(<<"m", "y">>),
    FromChars(<<"f", "i", "r", "s", "t">>),
    FromChars(<<"w", "a", "t", "e", "r">>),
    FromChars(<<"b", "e", "e", "n">>),
    FromChars(<<"c", "a", "l", "l">>),
    FromChars(<<"o", "i", "l">>),
    FromChars(<<"s", "i", "t">>),
    FromChars(<<"f", "i", "n", "d">>),
    FromChars(<<"d", "o", "w", "n">>),
    FromChars(<<"c", "o", "m", "e">>),
    FromChars(<<"m", "a", "d", "e">>),
    FromChars(<<"p", "a", "r", "t">>)}

\* result cap of the keyword query (.limit(5)), of the semantic list ([:5])
\* and of the final list (all_docs[:5])
KeywordLimit == 5
SemanticTop == 5
ResultCap == 5
\* p_match_count and p_threshold (in hundredths) of match_document_sections
MatchCount == 6
Threshold == 35
\* keywords[:3]
MaxKeywords == 3
\* re.findall(r'\b\w{3,}\b')
MinWordLen == 3
\* doc.page_content[:200]
DedupKeyLen == 200

\* words of 3 or more characters that are no stopwords
FilterKeywords(ws) ==
    LET Keep(w) == TextLen(w) >= MinWordLen /\ w \notin Stopwords
    IN  SelectSeq(ws, Keep)

\* query_words without the stopwords
KeywordsOf(query) == FilterKeywords(WordsFrom(Lower(query), <<>>))

FilterRows(st, kw, ids) ==
    LET Keep(r) == Contains(Lower(r.content), kw) /\ r.document_id \in ids
    IN  SelectSeq(st, Keep)

\* mutant: the keyword query without .in_("document_id", org_doc_ids)
KeywordRows_NoOrgFilter(st, kw, ids) == Prefix(FilterRows(st, kw, DocIds), KeywordLimit)

\* document_sections.select(...).ilike("content", "%kw%").in_("document_id", ids).limit(5)
KeywordRows(st, kw, ids) == Prefix(FilterRows(st, kw, ids), KeywordLimit)

Topic(c) == IF c \in {"a", "c"} THEN 1 ELSE IF c \in {"b", "d"} THEN 2 ELSE 3

\* cosine similarity of two embeddings, in hundredths
Similarity(q, e) ==
    IF Topic(q.c) = Topic(e.c)
    THEN 80 - 10 * (IF q.n >= e.n THEN q.n - e.n ELSE e.n - q.n)
    ELSE 20

RECURSIVE InsertBySim(_, _)
\* insert x behind every element whose similarity is not smaller
InsertBySim(s, x) ==
    IF s = <<>> THEN <<x>>
    ELSE IF Head(s).similarity >= x.similarity THEN <<Head(s)>> \o InsertBySim(Tail(s), x)
    ELSE <<x>> \o s

RECURSIVE SortBySim(_)
\* stable sort, similarity descending
SortBySim(s) == IF s = <<>> THEN <<>>
                ELSE InsertBySim(SortBySim(SubSeq(s, 1, Len(s) - 1)), s[Len(s)])

\* a section with its similarity to the query embedding
Match(row, similarity) ==
    [document_id |-> row.document_id, content |-> row.content,
     metadata |-> row.metadata, similarity |-> similarity]

MatchesOf(st, org, q) ==
    LET Keep(m) == m.document_id \in OrgDocIds(org) /\ m.similarity > Threshold
    IN  SelectSeq([i \in 1..Len(st) |-> Match(st[i], Similarity(q, st[i].embedding))], Keep)

Reverse(s) == [i \in 1..Len(s) |-> s[Len(s) + 1 - i]]

\* rpc("match_document_sections"): the sections of the organization's documents
\* above the threshold, the p_match_count most similar ones
Ordered(best, order) == IF order = "best_first" THEN best ELSE Reverse(best)

MatchDocumentSections(st, org, q, order) ==
    Ordered(Prefix(SortBySim(MatchesOf(st, org, q)), MatchCount), order)

\* documents.select("id, name").in_("id", doc_ids).eq("organization_id", org)
DocName(d, org) == IF d \in OrgDocIds(org) THEN Documents[d].name ELSE Name_Unknown

\* {"document_id": ..., "source": ..., **metadata, "similarity": ...}
DocMetadata(document_id, source, stored, similarity) ==
    [document_id |-> IF stored.document_id # Absent THEN stored.document_id ELSE document_id,
     source |-> IF stored.source # AbsentText THEN stored.source ELSE source,
     file_type |-> stored.file_type,
     page |-> stored.page,
     page_number_footer |-> stored.page_number_footer,
     actual_page |-> stored.actual_page,
     project_description |-> stored.project_description,
     is_sparse_text |-> stored.is_sparse_text,
     extraction_method |-> stored.extraction_method,
     row |-> stored.row,
     row_start |-> stored.row_start,
     row_end |-> stored.row_end,
     similarity |-> similarity]

SemanticDoc(m, org) ==
    [page_content |-> m.content,
     metadata |-> DocMetadata(m.document_id, DocName(m.document_id, org), m.metadata, m.similarity)]

KeywordDoc(r, org) ==
    [page_content |-> r.content,
     metadata |-> DocMetadata(r.document_id, DocName(r.document_id, org), r.metadata, AbsentInt)]

\* sorted(semantic_docs, key=similarity, reverse=True)[:5]
Untagged(sorted) == [i \in 1..Len(sorted) |-> sorted[i].d]

SortDocsBySim(docs) ==
    Untagged(SortBySim([i \in 1..Len(docs) |->
                            [similarity |-> docs[i].metadata.similarity, d |-> docs[i]]]))

SemanticDocs(matches, org) ==
    Prefix(SortDocsBySim([i \in 1..Len(matches) |-> SemanticDoc(matches[i], org)]), SemanticTop)

\* mutant: the whole content as the deduplication key
ContentKey_Whole(doc) == doc.page_content

\* content_key = doc.page_content[:200]
ContentKey(doc) == Take(doc.page_content, DedupKeyLen)

RECURSIVE Dedup(_, _, _)
\* the loop "if content_key not in seen_content: append, add"
Dedup(docs, acc, seen) ==
    IF docs = <<>> THEN acc
    ELSE IF ContentKey(Head(docs)) \in seen THEN Dedup(Tail(docs), acc, seen)
    ELSE Dedup(Tail(docs), Append(acc, Head(docs)), seen \cup {ContentKey(Head(docs))})

\* mutant: the semantic results are taken first
CombineDocs_SemanticFirst(keyword_docs, semantic_docs) ==
    Dedup(semantic_docs \o keyword_docs, <<>>, {})

\* all_docs: keyword_docs first, then semantic_docs
CombineDocs(keyword_docs, semantic_docs) ==
    Dedup(keyword_docs \o semantic_docs, <<>>, {})

\* the pieces of the serialized text: a literal, an inserted text, an inserted number
Lit(s) == [k |-> "lit", s |-> s, v |-> <<>>, n |-> 0]
Val(v) == [k |-> "text", s |-> "", v |-> v, n |-> 0]
Num(n) == [k |-> "number", s |-> "", v |-> <<>>, n |-> n]

\* mutant: the citation never names a page
PageOf_NoPage(meta) == Lit("N/A")

\* metadata.get('page', metadata.get('page_number_footer', 'N/A'))
PageOf(meta) == IF meta.page # AbsentInt THEN Num(meta.page)
                ELSE IF meta.page_number_footer # AbsentInt THEN Num(meta.page_number_footer)
                ELSE Lit("N/A")

CitationBlock(doc) ==
    << Lit("Source: "), Val(doc.metadata.source), Lit(", "), Lit("Pagina: "),
       PageOf(doc.metadata), Lit("\n"), Lit("Content: "), Val(doc.page_content) >>

RECURSIVE Serialize(_)
\* "\n\n".join(block for doc in retrieved_docs)
Serialize(docs) ==
    IF docs = <<>> THEN <<>>
    ELSE IF Len(docs) = 1 THEN CitationBlock(docs[1])
    ELSE CitationBlock(Head(docs)) \o <<Lit("\n\n")>> \o Serialize(Tail(docs))

\* ------------------------------------------------------------------------
\* utils/text_utils.py: normalize_spaced_text
\* ------------------------------------------------------------------------
\* regex classes \d, [A-Za-z], \w
IsDigit(c) == c \in {"0", "1", "2", "3", "4", "5", "6", "7", "8", "9"}
IsLetter(c) == LowerChar(c) \in {"a", "b", "c", "d", "e", "f", "g", "h", "i", "j", "k", "l", "m",
                                 "n", "o", "p", "q", "r", "s", "t", "u", "v", "w", "x", "y", "z"}
IsWord(c) == IsDigit(c) \/ IsLetter(c) \/ c = "_"

\* run i of t is one character of the class (digits, or letters and digits)
OneDigit(t, i) == i \in 1..Len(t) /\ t[i].n = 1 /\ IsDigit(t[i].c)
OneLetter(t, i) == i \in 1..Len(t) /\ t[i].n = 1 /\ IsLetter(t[i].c)
OneAlnum(t, i) == OneDigit(t, i) \/ OneLetter(t, i)

\* run i of t is \s+ (a line holds no other white space than blanks)
Spaces(t, i) == i \in 1..Len(t) /\ t[i].c = SP

\* no word character stands before run i (\b before, (?<!\w)) or after it
\* (\b after, (?!\w))
BoundaryBefore(t, i) == i = 1 \/ ~IsWord(t[i - 1].c)
BoundaryAfter(t, i) == i = Len(t) \/ ~IsWord(t[i + 1].c)

RECURSIVE RemoveChars(_, _)
\* text.replace(c, '') for every character c of S
RemoveChars(t, S) ==
    IF t = <<>> THEN <<>>
    ELSE IF Len(t) = 1 THEN (IF t[1].c \in S THEN <<>> ELSE t)
    ELSE Concat(RemoveChars(SubSeq(t, 1, Len(t) \div 2), S),
                RemoveChars(SubSeq(t, Len(t) \div 2 + 1, Len(t)), S))

RECURSIVE Squash(_, _, _)
\* re.sub over the runs from..Len(t) of t, for a pattern whose match at run i
\* covers len[i] runs (0: no match at i) and whose replacement is the match
\* without its blanks: the leftmost match is taken, the search goes on behind it
Squash(t, len, from) ==
    LET starts == {i \in from..Len(t) : len[i] > 0}
        p == CHOOSE i \in starts : \A j \in starts : i <= j
    IN  IF starts = {} THEN SubSeq(t, from, Len(t))
        ELSE Concat(Concat(SubSeq(t, from, p - 1),
                           RemoveChars(SubSeq(t, p, p + len[p] - 1), {SP})),
                    Squash(t, len, p + len[p]))

\* the runs of the longest match at run i of single characters (digits when
\* digits_only, else letters and digits) with blanks between them, at least
\* least of them, between two boundaries
SpacedLen(t, i, digits_only, least) ==
    LET Elem(k) == IF digits_only THEN OneDigit(t, k) ELSE OneAlnum(t, k)
        ends == {b \in i..Len(t) :
                    /\ (b - i) % 2 = 0
                    /\ (b - i) \div 2 + 1 >= least
                    /\ BoundaryAfter(t, b)
                    /\ \A k \in i..b : IF (k - i) % 2 = 0 THEN Elem(k) ELSE Spaces(t, k)}
    IN  IF BoundaryBefore(t, i) /\ ends # {}
        THEN (CHOOSE b \in ends : \A c \in ends : c <= b) - i + 1
        ELSE 0

\* rule 1: (?<!\w)(?:[A-Za-z0-9]\s+){3,}[A-Za-z0-9](?!\w), blanks removed
collapse_spaced_sequences(line) ==
    Squash(line, [i \in 1..Len(line) |-> SpacedLen(line, i, FALSE, 4)], 1)

\* rule 3: \b(\d)\s+(\d)(?:\s+(\d))+\b, blanks removed
JoinSplitNumbers(line) ==
    Squash(line, [i \in 1..Len(line) |-> SpacedLen(line, i, TRUE, 3)], 1)

\* rule 4, first pattern: \b(\d)\s+(\d)\s*([A-Za-z])\b -> \1\2\3
JoinTwoDigitsUnit(line) ==
    LET Head2(i) == /\ OneDigit(line, i) /\ BoundaryBefore(line, i)
                    /\ Spaces(line, i + 1) /\ OneDigit(line, i + 2)
        Len4(i) == IF ~Head2(i) THEN 0
                   ELSE IF OneLetter(line, i + 3) /\ BoundaryAfter(line, i + 3) THEN 4
                   ELSE IF /\ Spaces(line, i + 3)
                           /\ OneLetter(line, i + 4) /\ BoundaryAfter(line, i + 4) THEN 5
                   ELSE 0
    IN  Squash(line, [i \in 1..Len(line) |-> Len4(i)], 1)

\* rule 4, second pattern: \b(\d)\s+([A-Za-z])\b -> \1\2
JoinDigitUnit(line) ==
    LET Len3(i) == IF /\ OneDigit(line, i) /\ BoundaryBefore(line, i)
                      /\ Spaces(line, i + 1)
                      /\ OneLetter(line, i + 2) /\ BoundaryAfter(line, i + 2)
                   THEN 3 ELSE 0
    IN  Squash(line, [i \in 1..Len(line) |-> Len3(i)], 1)

\* the last part of both patterns of rule 6 at run i: (\d)\.(\d)\b
DotDigit(t, i) ==
    /\ OneDigit(t, i)
    /\ i + 1 <= Len(t) /\ t[i + 1] = Run(".", 1)
    /\ OneDigit(t, i + 2) /\ BoundaryAfter(t, i + 2)

\* rule 6, first pattern: \b(\d)\s+(\d)\s+(\d)\.(\d)\b -> \1\2\3.\4
NormalizeDots3(line) ==
    LET Len7(i) == IF /\ OneDigit(line, i) /\ BoundaryBefore(line, i)
                      /\ Spaces(line, i + 1) /\ OneDigit(line, i + 2)
                      /\ Spaces(line, i + 3) /\ DotDigit(line, i + 4)
                   THEN 7 ELSE 0
    IN  Squash(line, [i \in 1..Len(line) |-> Len7(i)], 1)

\* rule 6, second pattern: \b(\d)\s+(\d)\.(\d)\b -> \1\2.\3
NormalizeDots2(line) ==
    LET Len5(i) == IF /\ OneDigit(line, i) /\ BoundaryBefore(line, i)
                      /\ Spaces(line, i + 1) /\ DotDigit(line, i + 2)
                   THEN 5 ELSE 0
    IN  Squash(line, [i \in 1..Len(line) |-> Len5(i)], 1)

\* punctuation of rule 9
Punct == {".", ":", ",", ";", "/", "-", "_", "(", ")", "=", "+"}

RECURSIVE SplitLines(_, _)
\* text.split("\n"); cur is the start of the line being read
SplitLines(t, cur) ==
    LET breaks == {i \in 1..Len(t) : t[i].c = NL}
        p == CHOOSE i \in breaks : \A j \in breaks : i <= j
    IN  IF breaks = {} THEN <<cur \o t>>
        ELSE <<cur \o SubSeq(t, 1, p - 1)>> \o [i \in 1..(t[p].n - 1) |-> <<>>]
             \o SplitLines(SubSeq(t, p + 1, Len(t)), <<>>)

RECURSIVE TightenPunct(_, _, _)
\* rule 9: re.sub(r"\s*([.:,;/\-_()=+])\s*", r"\1", line), for runs i..j of the
\* line: a run of spaces before or after a punctuation character goes
TightenPunct(t, i, j) ==
    IF i > j THEN <<>>
    ELSE IF i = j
         THEN (IF /\ t[i].c = SP
                  /\ \/ i < Len(t) /\ t[i + 1].c \in Punct
                     \/ i > 1 /\ t[i - 1].c \in Punct
               THEN <<>> ELSE <<t[i]>>)
    ELSE Concat(TightenPunct(t, i, (i + j) \div 2), TightenPunct(t, (i + j) \div 2 + 1, j))

\* rule 11: re.sub(r"[ \t]+", " ", line).strip()
CollapseSpaces(t) == Strip([i \in 1..Len(t) |-> IF t[i].c = SP THEN Run(SP, 1) ELSE t[i]])

\* rule 9 on a whole line
Tightened(stripped) == TightenPunct(stripped, 1, Len(stripped))

\* rules 1, 3, 4 and 6 of the loop, in the order of the code. Rules 2, 5, 7,
\* 8 and 10 rewrite "A 1", "DO 8", "Q264 .1", "2 5-0 6-2020" and "aBc": a
\* single A before 1 or 2, DO before a digit, Q or I before digits, a "-"
\* between digits, a small letter right before a capital; no text of this
\* model holds one of these
JoinedDigits(stripped) ==
    NormalizeDots2(NormalizeDots3(JoinDigitUnit(JoinTwoDigitsUnit(
        JoinSplitNumbers(collapse_spaced_sequences(stripped))))))

\* one line of the loop
NormalizeLine(line) == CollapseSpaces(Tightened(JoinedDigits(Strip(line))))

\* "\n".join(lines)
JoinLines(ls) == JoinWith(ls, <<Run(NL, 1)>>)

RECURSIVE NormalizeLines(_)
NormalizeLines(ls) ==
    IF ls = <<>> THEN <<>>
    ELSE (IF Strip(Head(ls)) = <<>> THEN <<>> ELSE <<NormalizeLine(Head(ls))>>)
         \o NormalizeLines(Tail(ls))

normalize_spaced_text(text) ==
    IF text = <<>> THEN <<>>
    ELSE Strip(JoinLines(NormalizeLines(SplitLines(text, <<>>))))

\* ------------------------------------------------------------------------
\* utils/extraction.py: extract_documents_from_file
\* ------------------------------------------------------------------------
\* f"Bestand: {file_name}"
BestandOf(file_name) ==
    Concat(FromChars(<<"B", "e", "s", "t", "a", "n", "d", ":", SP>>), file_name)

\* f"Bestand: {file_name}\n\n{content}"
WithBestand(file_name, content) ==
    Concat(Concat(BestandOf(file_name), <<Run(NL, 2)>>), content)

\* rows_per_document
RowsPerDocument == 50
\* is_sparse_text = len(normalized_text) < 40
SparseLen == 40

Unit(content, meta) == [page_content |-> content, metadata |-> meta]

Min(a, b) == IF a < b THEN a ELSE b

\* the PyMuPDF branch: one unit per page
PdfUnit(normalized_text, page_footer, project_description, i, file_name) ==
    Unit(normalized_text,
         [NoMeta EXCEPT !.source = file_name, !.page = page_footer,
                        !.actual_page = i,
                        !.is_sparse_text = IF TextLen(normalized_text) < SparseLen
                                           THEN "True" ELSE "False",
                        !.extraction_method = "pymupdf",
                        !.page_number_footer = page_footer,
                        !.project_description =
                            IF project_description # <<>> THEN project_description
                            ELSE AbsentText])

\* ------------------------------------------------------------------------
\* utils/extraction.py: extract_footer_info_from_pdf
\* A page is [text, width, height, lines, footer_error]; a line of
\* page.get_text("dict") is [text, x0, y0, x1, y1] (its spans joined, its bbox).
\* ------------------------------------------------------------------------
\* int(char) for a digit, -1 for another character (char.isdigit() is false)
DigitVal(c) ==
    CASE c = "0" -> 0 [] c = "1" -> 1 [] c = "2" -> 2 [] c = "3" -> 3 [] c = "4" -> 4
      [] c = "5" -> 5 [] c = "6" -> 6 [] c = "7" -> 7 [] c = "8" -> 8 [] c = "9" -> 9
      [] OTHER -> -1

RECURSIVE NumVal(_, _, _, _)
\* int(current_number) for the digits of runs i..e of t, read after acc
NumVal(t, i, e, acc) ==
    IF i > e THEN acc
    ELSE IF t[i].n = 0 THEN NumVal(t, i + 1, e, acc)
    ELSE NumVal([t EXCEPT ![i].n = @ - 1], i, e, 10 * acc + DigitVal(t[i].c))

\* the numbers of a text, in order: its maximal groups of digits
NumbersIn(t) ==
    LET starts == {i \in 1..Len(t) : DigitVal(t[i].c) >= 0 /\ (i = 1 \/ DigitVal(t[i - 1].c) < 0)}
        EndOf(i) == MaxOf({j \in i..Len(t) : \A k \in i..j : DigitVal(t[k].c) >= 0})
        Nth(k) == CHOOSE i \in starts : Cardinality({j \in starts : j < i}) = k - 1
    IN  [k \in 1..Cardinality(starts) |-> NumVal(t, Nth(k), EndOf(Nth(k)), 0)]

\* lines 66-108: the numbers (>= 1) of the lines in the bottom-right area,
\* each with the right and bottom edge of its line
PageNumberCandidates(page) ==
    LET InRoi(l) == 100 * l.y1 >= 90 * page.height /\ 100 * l.x0 >= 85 * page.width
        roi == SelectSeq(page.lines, InRoi)
        Nums(l) == LET IsPage(n) == n >= 1
                   IN  SelectSeq(NumbersIn(RemoveChars(normalize_spaced_text(l.text), {SP})), IsPage)
        Of(l) == [k \in 1..Len(Nums(l)) |->
                    [num |-> Nums(l)[k], similarity |-> 100000 * l.y1 + l.x1]]
        RECURSIVE All(_)
        All(ls) == IF ls = <<>> THEN <<>> ELSE Of(Head(ls)) \o All(Tail(ls))
    IN  All(roi)

\* lines 110-125: candidates sorted bottom first, then right first; the first
\* one of 100 or more if there is one, else the first one; NoFooter if none
PageNumberFooter(page_number_candidates) ==
    LET sorted == SortBySim(page_number_candidates)
        IsLarge(c) == c.num >= 100
        large_candidates == SelectSeq(sorted, IsLarge)
    IN  IF sorted = <<>> THEN NoFooter
        ELSE IF large_candidates # <<>> THEN large_candidates[1].num
        ELSE sorted[1].num

\* lines 129-145: the non-blank lines of the bottom 15% of the page,
\* normalized, sorted top to bottom
BottomLines(page) ==
    LET InBottom(l) == 100 * l.y1 >= 85 * page.height /\ Strip(l.text) # <<>>
        bottom == SelectSeq(page.lines, InBottom)
    IN  SortBySim([k \in 1..Len(bottom) |->
                      [text |-> normalize_spaced_text(bottom[k].text),
                       y0 |-> bottom[k].y0, similarity |-> 0 - bottom[k].y0]])

\* text.lower().replace(' ', '').replace('_', '')
Squeeze(t) == RemoveChars(Lower(t), {SP, "_"})

\* 'project' in normalized and 'description' in normalized
IsLabel(normalized) ==
    /\ Contains(normalized, FromChars(<<"p", "r", "o", "j", "e", "c", "t">>))
    /\ Contains(normalized, FromChars(<<"d", "e", "s", "c", "r", "i", "p", "t", "i", "o", "n">>))

\* lines 152-169: the first label line, and the first line at its height
\* (less than 10 apart) that is no label and is longer than "Project Description"
ProjectDescription(all_lines) ==
    LET labels == {k \in 1..Len(all_lines) : IsLabel(Squeeze(all_lines[k].text))}
        First(S) == CHOOSE k \in S : \A j \in S : k <= j
        Near(j, k) == all_lines[j].y0 - all_lines[k].y0 < 10 /\ all_lines[k].y0 - all_lines[j].y0 < 10
        IsValue(sq, text) ==
            /\ ~IsLabel(sq)
            /\ ~Contains(sq, FromChars(<<"p", "r", "o", "d", "u", "c", "t", "i", "o", "n">>))
            /\ ~Contains(sq, FromChars(<<"n", "u", "m", "b", "e", "r">>))
            /\ TextLen(text) > 19
        values == IF labels = {} THEN {}
                  ELSE {j \in 1..Len(all_lines) :
                            /\ Near(j, First(labels))
                            /\ IsValue(Squeeze(all_lines[j].text), all_lines[j].text)}
    IN  IF values = {} THEN <<>>
        ELSE Strip(normalize_spaced_text(all_lines[First(values)].text))

NoFooterInfo == [page_number_footer |-> NoFooter, project_description |-> <<>>]

\* footer_info as it stands when the function returns; an exception at
\* page.footer_error ends the try block there: "open" (fitz.open, line 49),
\* "number" (lines 64-108), "description" (lines 129-212), "close" (line 221)
FooterInfo(page, number, description) ==
    CASE page.footer_error \in {"open", "number"} -> NoFooterInfo
      [] page.footer_error = "description" -> [NoFooterInfo EXCEPT !.page_number_footer = number]
      [] OTHER -> [page_number_footer |-> number,
                   project_description |-> IF TextLen(description) > 3 THEN description ELSE <<>>]

extract_footer_info_from_pdf(page) ==
    FooterInfo(page, PageNumberFooter(PageNumberCandidates(page)),
               ProjectDescription(BottomLines(page)))

\* page_footer = footer_info.get("page_number_footer") or actual_page
PageFooter(footer_info, i) ==
    IF footer_info.page_number_footer # NoFooter THEN footer_info.page_number_footer ELSE i

\* one round of "for page_idx in range(len(pdf))"
PdfPage(page, footer_info, i, file_name) ==
    PdfUnit(normalize_spaced_text(page.text), PageFooter(footer_info, i),
            footer_info.project_description, i, file_name)

\* mutant: actual_page is the index of the page, counted from 0
ExtractPdf_ZeroBased(pages, file_name) ==
    [i \in 1..Len(pages) |->
        PdfPage(pages[i], extract_footer_info_from_pdf(pages[i]), i - 1, file_name)]

ExtractPdf(pages, file_name) ==
    [i \in 1..Len(pages) |->
        PdfPage(pages[i], extract_footer_info_from_pdf(pages[i]), i, file_name)]

\* the CSV branch: CSVLoader gives one unit per row (metadata row = index from 0)
ExtractCsv(rows, file_name) ==
    [i \in 1..Len(rows) |->
        Unit(IF StartsWith(rows[i], BestandOf(file_name)) THEN rows[i]
             ELSE WithBestand(file_name, rows[i]),
             [NoMeta EXCEPT !.source = file_name, !.row = i - 1])]

\* mutant: row_end is not cut at the last row
ExtractExcel_UncutEnd(rows, file_name) ==
    LET n == Len(rows)
        units == (n + RowsPerDocument - 1) \div RowsPerDocument
    IN  [k \in 1..units |->
            LET i == (k - 1) * RowsPerDocument
            IN  Unit(WithBestand(file_name, JoinLines(SubSeq(rows, i + 1, Min(i + RowsPerDocument, n)))),
                     [NoMeta EXCEPT !.source = file_name, !.row_start = i + 1,
                                    !.row_end = i + RowsPerDocument])]

\* the Excel branch: range(0, len(df), rows_per_document)
ExtractExcel(rows, file_name) ==
    LET n == Len(rows)
        units == (n + RowsPerDocument - 1) \div RowsPerDocument
    IN  [k \in 1..units |->
            LET i == (k - 1) * RowsPerDocument
            IN  Unit(WithBestand(file_name, JoinLines(SubSeq(rows, i + 1, Min(i + RowsPerDocument, n)))),
                     [NoMeta EXCEPT !.source = file_name, !.row_start = i + 1,
                                    !.row_end = Min(i + RowsPerDocument, n)])]

\* TextLoader, the DOCX branch and the fallback: the whole file as one unit
ExtractWhole(text, file_name) == << Unit(text, [NoMeta EXCEPT !.source = file_name]) >>

Ext_pdf == FromChars(<<".", "p", "d", "f">>)
Ext_docx == FromChars(<<".", "d", "o", "c", "x">>)
Ext_doc == FromChars(<<".", "d", "o", "c">>)
Ext_txt == FromChars(<<".", "t", "x", "t">>)
Ext_csv == FromChars(<<".", "c", "s", "v">>)
Ext_xls == FromChars(<<".", "x", "l", "s">>)
Ext_xlsx == FromChars(<<".", "x", "l", "s", "x">>)

ExcelTypes == {"application/vnd.ms-excel",
               "application/vnd.openxmlformats-officedocument.spreadsheetml.sheet"}

Extensions == {Ext_pdf, Ext_docx, Ext_doc, Ext_txt, Ext_csv, Ext_xls, Ext_xlsx}

\* the extensions e with file_name.lower().endswith(e)
ExtensionsOf(file_name) == {e \in Extensions : EndsWith(Lower(file_name), e)}

\* is_csv, given the extensions of the file name
IsCsvExt(file_type, exts) == file_type = "text/csv" \/ Ext_csv \in exts

\* is_excel, given the extensions of the file name
IsExcelExt(file_type, exts) ==
    file_type \in ExcelTypes \/ Ext_xls \in exts \/ Ext_xlsx \in exts

\* the if/elif chain of extract_documents_from_file, given the extensions
BranchOfExt(file_type, exts) ==
    IF file_type = "application/pdf" \/ Ext_pdf \in exts THEN "pdf"
    ELSE IF \/ file_type = "application/vnd.openxmlformats-officedocument.wordprocessingml.document"
            \/ Ext_docx \in exts THEN "docx"
    ELSE IF file_type = "application/msword" \/ Ext_doc \in exts THEN "doc"
    ELSE IF file_type = "text/plain" \/ Ext_txt \in exts THEN "txt"
    ELSE IF IsCsvExt(file_type, exts) THEN "csv"
    ELSE IF IsExcelExt(file_type, exts) THEN "excel"
    ELSE "other"

\* the branch taken by extract_documents_from_file
BranchOf(file_type, file_name) == BranchOfExt(file_type, ExtensionsOf(file_name))

\* the documents of branch b; a file that the branch's reader cannot read, and
\* a legacy .doc, raise
ExtractBranch(b, file, file_name) ==
    IF b = "doc" \/ file.unreadable THEN [ok |-> FALSE, documents |-> <<>>]
    ELSE [ok |-> TRUE,
          documents |-> CASE b = "pdf" -> ExtractPdf(file.pages, file_name)
                          [] b = "csv" -> ExtractCsv(file.rows, file_name)
                          [] b = "excel" -> ExtractExcel(file.rows, file_name)
                          [] OTHER -> ExtractWhole(file.text, file_name)]

\* the result is [ok, documents]
extract_documents_from_file(file, file_type, file_name) ==
    ExtractBranch(BranchOf(file_type, file_name), file, file_name)

\* ------------------------------------------------------------------------
\* document_processing.py: chunking
\* ------------------------------------------------------------------------
\* the number of windows of size characters, step apart, that cover len characters
WindowCount(len, size, step) ==
    IF len <= size THEN 1 ELSE 1 + ((len - size + step - 1) \div step)

\* the windows of a text of len characters
WindowsOf(t, len, size, step) ==
    [k \in 1..WindowCount(len, size, step) |->
        Take(Drop(t, (k - 1) * step), Min(size, len - (k - 1) * step))]

\* pieces of at most size characters, each starting size - overlap after the last
Windows(t, size, overlap) == WindowsOf(t, TextLen(t), size, size - overlap)

NotBlank(t) == t # <<>>

DropBlank(ts) == SelectSeq([i \in 1..Len(ts) |-> Strip(ts[i])], NotBlank)

\* RecursiveCharacterTextSplitter(chunk_size, chunk_overlap).split_text:
\* stripped pieces of at most chunk_size characters, blank pieces dropped
SplitText(t, size, overlap) ==
    IF TextLen(t) <= size THEN DropBlank(<<t>>)
    ELSE DropBlank(Windows(t, size, overlap))

\* split_documents([doc]): every piece carries a copy of the unit's metadata
WithMetadata(ts, meta) == [i \in 1..Len(ts) |-> Unit(ts[i], meta)]

SplitDocuments(doc, size, overlap) ==
    WithMetadata(SplitText(doc.page_content, size, overlap), doc.metadata)

\* split_documents(docs): the pieces of every document, in order
RECURSIVE SplitAll(_, _, _)
SplitAll(docs, size, overlap) ==
    IF docs = <<>> THEN <<>>
    ELSE SplitDocuments(Head(docs), size, overlap) \o SplitAll(Tail(docs), size, overlap)

RECURSIVE Resplit(_, _, _, _)
\* "if len(chunk.page_content) > chunk_size * 1.5: split again", when again
Resplit(cs, again, size, overlap) ==
    IF cs = <<>> THEN <<>>
    ELSE (IF again /\ 2 * TextLen(Head(cs).page_content) > 3 * size
          THEN SplitAll(<<Head(cs)>>, size, overlap) ELSE <<Head(cs)>>)
         \o Resplit(Tail(cs), again, size, overlap)

\* page_chunks of one unit
PageChunks(doc_obj, is_csv, size, overlap) ==
    Resplit(SplitAll(<<doc_obj>>, size, overlap),
            is_csv /\ TextLen(doc_obj.page_content) > size * 2, size, overlap)

\* the body of "for chunk in page_chunks" for one chunk of unit doc_obj
EnrichChunk(chunk, doc_obj, is_excel, documentId) ==
    LET m == doc_obj.metadata
        content == IF /\ is_excel /\ m.source # AbsentText
                      /\ ~StartsWith(chunk.page_content, BestandOf(m.source))
                   THEN WithBestand(m.source, chunk.page_content)
                   ELSE chunk.page_content
        cm == chunk.metadata
    IN  Unit(content,
             [cm EXCEPT !.document_id = IF cm.document_id = Absent THEN documentId ELSE @,
                        !.page = IF m.page # AbsentInt THEN m.page ELSE @,
                        !.actual_page = IF m.actual_page # AbsentInt THEN m.actual_page ELSE @,
                        !.page_number_footer = IF m.page_number_footer # AbsentInt
                                               THEN m.page_number_footer ELSE @,
                        !.project_description = IF m.project_description # AbsentText
                                                THEN m.project_description ELSE @])

\* s + s + ... + s (k times)
Repeat(s, k) == [i \in 1..(k * Len(s)) |-> s[((i - 1) % Len(s)) + 1]]

\* the else branch of lines 153-212.  The loop over page_chunks stands after
\* the loop over langchain_docs, not inside it: it sees the page_chunks and the
\* doc_obj of the last unit only, and chunks.extend(page_chunks) runs once for
\* every chunk of that unit.
ExtendedChunks(page_chunks, doc_obj, is_excel, documentId) ==
    Repeat([i \in 1..Len(page_chunks) |->
                EnrichChunk(page_chunks[i], doc_obj, is_excel, documentId)],
           Len(page_chunks))

ChunksOfUnits(langchain_docs, is_csv, is_excel, size, overlap, documentId) ==
    ExtendedChunks(PageChunks(langchain_docs[Len(langchain_docs)], is_csv, size, overlap),
                   langchain_docs[Len(langchain_docs)], is_excel, documentId)

\* "doc_obj.metadata[document_id] = ...; doc_obj.metadata[file_type] = ..."
TagUnits(langchain_docs, documentId, file_type) ==
    [i \in 1..Len(langchain_docs) |->
        [langchain_docs[i] EXCEPT !.metadata.document_id = documentId,
                                  !.metadata.file_type = file_type]]

\* chunk_size / chunk_overlap
ChunkSize(is_csv) == IF is_csv THEN 800 ELSE 1500
ChunkOverlap(is_csv) == IF is_csv THEN 100 ELSE 200

\* lines 91-212: the chunk list of the extracted units
\* is_mistral_ocr or is_pymupdf_pdf
IsPdfExtraction(langchain_docs) ==
    \E i \in 1..Len(langchain_docs) :
        langchain_docs[i].metadata.extraction_method \in {"mistral_ocr", "pymupdf"}

\* the two branches of the chunking, on the tagged units
ChunksOfTagged(langchain_docs, is_csv, is_excel, documentId) ==
    IF IsPdfExtraction(langchain_docs) THEN langchain_docs
    ELSE ChunksOfUnits(langchain_docs, is_csv, is_excel,
                       ChunkSize(is_csv), ChunkOverlap(is_csv), documentId)

\* is_excel and is_csv, from the extensions of the file name
ChunksOfExt(units, file_type, exts, documentId) ==
    ChunksOfTagged(TagUnits(units, documentId, file_type),
                   IsCsvExt(file_type, exts), IsExcelExt(file_type, exts), documentId)

ChunksOf(units, file_type, file_name, documentId) ==
    ChunksOfExt(units, file_type, ExtensionsOf(file_name), documentId)

\* ------------------------------------------------------------------------
\* document_processing.py: embedding batches and insert batches
\* ------------------------------------------------------------------------
\* max_chars_per_batch = int(300000 * 4 * 0.7)
MaxCharsPerBatch == 840000
\* smaller_batch_size
SmallerBatchSize == 50
\* "Insert in batches of 10"
InsertBatchSize == 10

RECURSIVE SumLen(_, _, _)
\* sum(len(text)) of texts i..j
SumLen(texts, i, j) ==
    IF i > j THEN 0
    ELSE IF i = j THEN TextLen(texts[i])
    ELSE LET h == (i + j) \div 2 IN SumLen(texts, i, h) + SumLen(texts, h + 1, j)

\* the last text of the batch that starts with text s: texts are added while
\* "current_batch and current_batch_chars + text_length > max_chars_per_batch"
\* is false
BatchEnd(texts, s) ==
    MaxOf({e \in s..Len(texts) : e = s \/ SumLen(texts, s, e) <= MaxCharsPerBatch})

RECURSIVE BatchesFrom(_, _)
\* the batches sent to the provider, in order, from text s on
BatchesFrom(texts, s) ==
    IF s > Len(texts) THEN <<>>
    ELSE <<SubSeq(texts, s, BatchEnd(texts, s))>> \o BatchesFrom(texts, BatchEnd(texts, s) + 1)

\* embeddings.embed_documents(batch) when the provider answers
EmbedDocuments(batch) == [i \in 1..Len(batch) |-> Embed(batch[i])]

\* range(0, len(current_batch), smaller_batch_size)
SubBatchCount(batch) == (Len(batch) + SmallerBatchSize - 1) \div SmallerBatchSize

\* mutant: a sub-batch starts with the last text of the sub-batch before it
SubBatch_Overlapping(batch, j) ==
    SubSeq(batch, IF j = 1 THEN 1 ELSE (j - 1) * SmallerBatchSize,
           Min(j * SmallerBatchSize, Len(batch)))

\* smaller_batch = current_batch[j:j + smaller_batch_size], for the j-th round
SubBatch(batch, j) ==
    SubSeq(batch, (j - 1) * SmallerBatchSize + 1, Min(j * SmallerBatchSize, Len(batch)))

RECURSIVE EmbedSubBatches(_, _)
\* what the first k rounds of the loop over the sub-batches add to embeddings_list
EmbedSubBatches(batch, k) ==
    IF k = 0 THEN <<>>
    ELSE EmbedSubBatches(batch, k - 1) \o EmbedDocuments(SubBatch(batch, k))

\* zip(chunks, embeddings_list)
ZipLen(chunks, embeddings_list) == Min(Len(chunks), Len(embeddings_list))

\* mutant: only full batches are inserted
NextInsertSize_FullOnly(i, chunks, embeddings_list) ==
    IF ZipLen(chunks, embeddings_list) - i >= InsertBatchSize THEN InsertBatchSize ELSE 0

\* the number of rows of the insert call made after i pairs have been handled;
\* 0 when no further call is made
NextInsertSize(i, chunks, embeddings_list) ==
    LET m == ZipLen(chunks, embeddings_list)
    IN  IF m - i >= InsertBatchSize THEN InsertBatchSize
        ELSE IF m - i > 0 /\ m = Len(chunks) THEN m - i
        ELSE 0

\* ------------------------------------------------------------------------
\* Callers, blob storage
\* ------------------------------------------------------------------------
\* authorization header: None, or the token of a user
Callers == {None, "userA", "userB", "admin"}
UserOrgs(u) == IF u = "userA" THEN {OrgA} ELSE IF u = "userB" THEN {OrgB} ELSE {}
UserRole(u) == IF u = "admin" THEN "admin" ELSE "user"

\* config.py verify_auth_token: 0 when the caller may act for the organization,
\* else the HTTP status raised
verify_auth_token(authorization, organization_id) ==
    IF authorization = None THEN 401
    ELSE IF organization_id \notin UserOrgs(authorization) /\ UserRole(authorization) # "admin"
         THEN 403
    ELSE 0

NoFile == [unreadable |-> FALSE, pages |-> <<>>, rows |-> <<>>, text |-> <<>>]
\* a line of page.get_text("dict"): the text of its spans and its bbox
Line(text, x0, y0, x1, y1) == [text |-> text, x0 |-> x0, y0 |-> y0, x1 |-> x1, y1 |-> y1]

\* a PDF page of 1000 x 1000: its block text and its footer lines
Page(text, lines) == [text |-> text, width |-> 1000, height |-> 1000, lines |-> lines,
                      footer_error |-> "none"]

\* footer texts; "emdash" stands for the one character U+2014
T_12 == FromChars(<<"1", "2">>)
T_Label == FromChars(<<"P", "r", "o", "j", "e", "c", "t", " ", "D", "e", "s", "c", "r", "i", "p", "t",
                      "i", "o", "n", ":">>)
T_Value == FromChars(<<"C", "o", "n", "v", "e", "y", "o", "r", " ", "L", "i", "n", "e", " ", "3">>)
T_Pages == FromChars(<<"P", "a", "g", "e", " ", "1", "2", " ", "o", "f", " ", "4", "0", " ", "emdash", " ">>)
T_Hall == FromChars(<<" ", "W", "e", "s", "t", " ", "H", "a", "l", "l">>)

\* a footer with the page number 12 at the bottom right, the label at the
\* left and a value at the label's height
Footer12 == << Line(T_Label, 100, 950, 250, 960),
               Line(Concat(T_Value, T_Hall), 300, 952, 500, 962),
               Line(T_12, 900, 950, 950, 960) >>

\* the footer "Page 12 of 40 (U+2014) Project Description: Conveyor Line 3" on one
\* line at the bottom right, on one line across the page, and on two lines
\* at the same height
ScenarioFooters ==
    { << Line(Concat(T_Pages, Concat(Concat(T_Label, Blank), T_Value)), 860, 950, 995, 960) >>,
      << Line(Concat(T_Pages, Concat(Concat(T_Label, Blank), T_Value)), 100, 950, 600, 960) >>,
      << Line(Concat(T_Pages, T_Label), 860, 950, 930, 960),
         Line(T_Value, 935, 950, 995, 960) >>,
      << Line(T_Pages, 860, 950, 900, 960),
         Line(Concat(Concat(T_Label, Blank), T_Value), 905, 950, 995, 960) >> }

\* single-page PDFs with these footers
ScenarioFiles ==
    { [NoFile EXCEPT !.pages = << Page(Words(<<W_aaa, W_bbb>>), f) >>] : f \in ScenarioFooters }

\* PDFs of two pages on whose first page the footer extraction fails
FooterErrorFiles ==
    { [NoFile EXCEPT !.pages = << [Page(Words(<<W_ccc, W_ddd>>), Footer12) EXCEPT !.footer_error = e],
                                 Page(Words(<<W_aaa>>), <<>>) >>] :
        e \in {"open", "number", "description", "close"} }

Cell(a, b) == Concat(Concat(a, <<Run(":", 1), Run(SP, 1)>>), b)
BigRow == Cell(W_ccc, <<Run("x", 2000)>>)

PdfOf(texts) == [NoFile EXCEPT !.pages = [i \in 1..Len(texts) |-> Page(texts[i], <<>>)]]

\* a PDF of 53 pages: two pages that fill one embedding batch, then 51 short
\* pages that make a second batch of more than 50 texts
ManyPages ==
    PdfOf([i \in 1..53 |-> IF i <= 2 THEN <<Run("x", 420000)>>
                           ELSE IF i % 2 = 1 THEN <<Run("a", 3 + (i % 3))>>
                           ELSE <<Run("b", 3 + (i % 3))>>])

\* a PDF of one page with more text than the character budget of a batch
HugePage == PdfOf(<< <<Run("y", 840001)>> >>)

\* the files a document's blob may hold
Files(d) ==
    CASE d = "d1" -> { [NoFile EXCEPT !.rows = <<Cell(W_aaa, W_bbb), Cell(W_ccc, W_ddd), Cell(W_aaa, W_ccc)>>],
                       [NoFile EXCEPT !.rows = <<Cell(W_aaa, W_bbb), BigRow>>],
                       [NoFile EXCEPT !.rows = <<BigRow, Cell(W_aaa, W_bbb)>>],
                       NoFile }
      [] d = "d2" -> { [NoFile EXCEPT !.pages = << Page(<<Run("a", 3), Run(SP, 2), Run("b", 3), Run(NL, 2),
                                                             Run(SP, 1), Run("c", 3)>>, Footer12),
                                                    Page(<<Run(SP, 1)>>, <<>>),
                                                    Page(Long1, <<>>) >>],
                       [NoFile EXCEPT !.pages = << Page(<<Run(SP, 1)>>, <<>>) >>],
                       [NoFile EXCEPT !.unreadable = TRUE] }
                     \cup ScenarioFiles \cup FooterErrorFiles
      [] d = "d3" -> { PdfOf(<< Words(<<W_bbb, W_ccc>>), Long2 >>), ManyPages, HugePage }
      [] d = "d4" -> { [NoFile EXCEPT !.rows = [i \in 1..51 |-> IF i = 51 THEN W_ddd ELSE W_aaa]],
                       [NoFile EXCEPT !.rows = <<W_bbb, <<Run(SP, 1)>>>>] }
      [] d = "d5" -> { [NoFile EXCEPT !.text = Words(<<W_bbb, W_ccc>>)],
                       [NoFile EXCEPT !.text = <<Run("a", 3), Run(SP, 1), Run("z", 3100)>>],
                       [NoFile EXCEPT !.text = <<Run(SP, 2), Run(NL, 1)>>] }
      [] OTHER -> {NoFile}

\* the rows that a successful ingestion run r of document d writes for file
RowsOfChunks(chunks, d, r) ==
    [k \in 1..Len(chunks) |->
        [document_id |-> d, content |-> chunks[k].page_content,
         metadata |-> chunks[k].metadata,
         embedding |-> Embed(chunks[k].page_content), run |-> r]]

\* the chunk list of a file of the document with registry record doc
ChunksOfFile(file, doc) ==
    ChunksOf(extract_documents_from_file(file, doc.file_type, doc.name).documents,
             doc.file_type, doc.name, doc.id)

\* the rows that a successful ingestion run r of document d writes for file
IngestedRows(d, file, r) == RowsOfChunks(ChunksOfFile(file, Documents[d]), d, r)

RECURSIVE SeededRows(_)
\* the rows left by earlier ingestions (run 0) of the files of seed, in order
SeededRows(seed) ==
    IF seed = <<>> THEN <<>>
    ELSE IngestedRows(Head(seed).d, Head(seed).file, 0) \o SeededRows(Tail(seed))

Seeded(d, file) == [d |-> d, file |-> file]

\* what was ingested before the behaviour starts
Seeds ==
    << <<>>,
       << Seeded("d3", PdfOf(<< Long1, Long2, Long3, Words(<<W_aaa, W_bbb>>),
                                Words(<<W_ddd, W_aaa>>) >>)),
          Seeded("d2", PdfOf(<< Words(<<W_aaa, W_bbb>>), Words(<<W_bbb, W_ddd>>) >>)),
          Seeded("d5", [NoFile EXCEPT !.text = Words(<<W_bbb, W_ccc>>)]),
          Seeded("d1", [NoFile EXCEPT !.rows = <<Cell(W_ccc, W_ddd), Cell(<<Run("A", 3)>>, W_ccc)>>]) >>,
       << Seeded("d2", PdfOf(<< Words(<<W_bbb>>), Long1 >>)),
          Seeded("d3", PdfOf(<< Words(<<W_ccc, W_the>>), Words(<<W_ccc, W_the>>),
                                Words(<<W_aaa, W_ccc, W_ddd>>), Words(<<W_ccc>>),
                                <<Run("A", 3)>>, Words(<<W_aaa, W_bbb>>),
                                Words(<<W_bbb, W_ccc>>), Long1, Long3 >>)) >> >>

\* the stores a behaviour may start with
InitStores == {SeededRows(Seeds[k]) : k \in 1..Len(Seeds)}

\* the queries asked
Queries == { Words(<<W_aaa>>),
             Words(<<W_bbb, W_the, W_ccc>>),
             Words(<<<<Run("A", 3)>>, W_bbb, W_ccc, W_ddd>>),
             FromChars(<<"a", "b">>) }

\* ------------------------------------------------------------------------
\* State
\* ------------------------------------------------------------------------
VARIABLES
    store,                    \* table document_sections, in insertion order
    current_organization_id,  \* ContextVar _current_organization_id
    ret,                      \* the running call of _retrieve_internal
    ing,                      \* the running call of process_document_endpoint
    runs,                     \* number of ingestion runs started so far
    chat,                     \* the running call of chat_endpoint
    parked,                   \* the request that is waiting while the other one runs
    norm,                     \* a text and what normalize_spaced_text makes of it
    sheet                     \* a spreadsheet and the units extracted from it

vars == <<store, current_organization_id, ret, ing, runs, chat, parked, norm, sheet>>

\* what the retriever and a single process-document request leave alone
aux == <<chat, parked, norm, sheet>>

RetIdle == [pc |-> "idle", query |-> <<>>, organization_id |-> None,
            query_embedding |-> Embed(<<>>), semantic_docs |-> <<>>, keyword_docs |-> <<>>,
            keywords |-> <<>>, org_doc_ids |-> {}, kwi |-> 0,
            retrieved_docs |-> <<>>, serialized |-> <<>>,
            outcome |-> "none", calls |-> <<>>, keyword_error |-> FALSE,
            failed_at |-> "none", via |-> "none"]

\* ------------------------------------------------------------------------
\* chat.py: set_current_trace / retrieve / _retrieve_internal
\* ------------------------------------------------------------------------
\* set_current_trace(trace, trace_context, organization_id)
SetCurrentTrace(org) ==
    /\ ret.pc = "idle"
    /\ current_organization_id # org
    /\ current_organization_id' = org
    /\ UNCHANGED <<store, ret, ing, runs, aux>>

\* the outer "except Exception: ... raise"
Raise(r, where) == [r EXCEPT !.pc = "done", !.outcome = "error", !.failed_at = where]

\* mutant: the call starts without the check of organization_id
EnterRetrieve_NoCheck(query, org) ==
    [RetIdle EXCEPT !.pc = "embed", !.query = query, !.organization_id = org]

\* "if not organization_id: raise ValueError", else the call starts
EnterRetrieve(query, org) ==
    IF org \in {None, ""}
    THEN [RetIdle EXCEPT !.pc = "done", !.query = query, !.organization_id = org,
                         !.outcome = "ValueError"]
    ELSE [RetIdle EXCEPT !.pc = "embed", !.query = query, !.organization_id = org]

\* a direct call _retrieve_internal(query, organization_id)
RetrieveInternal(query, org) ==
    /\ ret.pc = "idle"
    /\ ret' = [EnterRetrieve(query, org) EXCEPT !.via = "internal"]
    /\ UNCHANGED <<store, current_organization_id, ing, runs, aux>>

\* the tool retrieve(query): the organization comes from the context variable
RetrieveTool(query) ==
    /\ ret.pc = "idle"
    /\ ret' = IF current_organization_id \in {None, ""}
              THEN [RetIdle EXCEPT !.pc = "done", !.query = query, !.via = "tool",
                                   !.organization_id = current_organization_id,
                                   !.outcome = "ValueError"]
              ELSE [EnterRetrieve(query, current_organization_id) EXCEPT !.via = "tool"]
    /\ UNCHANGED <<store, current_organization_id, ing, runs, aux>>

\* query_embedding = embeddings.embed_query(query)
EmbedQuery(ok) ==
    /\ ret.pc = "embed"
    /\ LET r == [ret EXCEPT !.calls = Append(@, "embed_query")]
       IN  ret' = IF ok THEN [r EXCEPT !.pc = "semantic", !.query_embedding = Embed(ret.query)]
                  ELSE Raise(r, "embed")
    /\ UNCHANGED <<store, current_organization_id, ing, runs, aux>>

\* the calls made so far, with one more
Called(r, what) == [r EXCEPT !.calls = Append(@, what)]

\* the document names are looked up when there are rows
LookedUp(r, rows) == IF rows # <<>> THEN Called(r, "documents") ELSE r

\* lines 357-397 for the matches returned by the rpc
SemanticResult(r, out, matches) ==
    IF out = "rpc_fails" THEN Raise(Called(r, "rpc"), "semantic")
    ELSE IF out = "documents_fails" /\ matches # <<>>
         THEN Raise(LookedUp(Called(r, "rpc"), matches), "semantic")
    ELSE [LookedUp(Called(r, "rpc"), matches) EXCEPT
             !.pc = "keyword_docs",
             !.semantic_docs = SemanticDocs(matches, r.organization_id)]

\* rpc match_document_sections, the lookup of the document names, sort and [:5];
\* out says which call fails (the lookup is made only when there are matches)
SemanticSearch(out, order) ==
    /\ ret.pc = "semantic"
    /\ ret' = SemanticResult(ret, out, MatchDocumentSections(store, ret.organization_id,
                                                             ret.query_embedding, order))
    /\ UNCHANGED <<store, current_organization_id, ing, runs, aux>>

\* mutant: an exception of the keyword search reaches the caller
KeywordFailed_Raises(r) == Raise([r EXCEPT !.keyword_error = TRUE], "keyword")

\* "except Exception as e: ... pass": the keyword search ends with what it has
KeywordFailed(r) == [r EXCEPT !.pc = "combine", !.keyword_error = TRUE]

\* org_doc_ids and the keywords of the query; an exception ends the keyword search
KeywordOrgDocs(ok) ==
    /\ ret.pc = "keyword_docs"
    /\ LET r == [ret EXCEPT !.calls = Append(@, "documents")]
           ids == OrgDocIds(ret.organization_id)
           kws == Prefix(KeywordsOf(ret.query), MaxKeywords)
       IN  ret' = IF ~ok THEN KeywordFailed(r)
                  ELSE IF ids = {} \/ kws = <<>> THEN [r EXCEPT !.pc = "combine", !.org_doc_ids = ids]
                  ELSE [r EXCEPT !.pc = "keyword_search", !.org_doc_ids = ids,
                                 !.keywords = kws, !.kwi = 1]
    /\ UNCHANGED <<store, current_organization_id, ing, runs, aux>>

RowsToDocs(rows, org) == [i \in 1..Len(rows) |-> KeywordDoc(rows[i], org)]

\* one round of "for keyword in keywords[:3]"
KeywordSearch(out) ==
    /\ ret.pc = "keyword_search"
    /\ LET rows == KeywordRows(store, ret.keywords[ret.kwi], ret.org_doc_ids)
           r1 == [ret EXCEPT !.calls = Append(@, "document_sections")]
           r2 == [r1 EXCEPT !.calls = Append(@, "documents")]
           next == IF ret.kwi = Len(ret.keywords) THEN "combine" ELSE "keyword_search"
       IN  \/ /\ out = "search_fails"
              /\ ret' = KeywordFailed(r1)
           \/ /\ out = "documents_fails"
              /\ rows # <<>>
              /\ ret' = KeywordFailed(r2)
           \/ /\ out = "ok"
              /\ ret' = [(IF rows # <<>> THEN r2 ELSE r1) EXCEPT
                            !.pc = next, !.kwi = @ + 1,
                            !.keyword_docs = @ \o RowsToDocs(rows, ret.organization_id)]
    /\ UNCHANGED <<store, current_organization_id, ing, runs, aux>>

\* mutant: the combined list is returned uncut
RetrievedDocs_Uncut(all_docs) == all_docs

\* retrieved_docs = all_docs[:5]
RetrievedDocs(all_docs) == Prefix(all_docs, ResultCap)

\* combine, deduplicate, cut to 5, serialize, return
Combine ==
    /\ ret.pc = "combine"
    /\ LET all_docs == CombineDocs(ret.keyword_docs, ret.semantic_docs)
           retrieved == RetrievedDocs(all_docs)
       IN  ret' = [ret EXCEPT !.pc = "done", !.outcome = "ok",
                              !.retrieved_docs = retrieved,
                              !.serialized = Serialize(retrieved)]
    /\ UNCHANGED <<store, current_organization_id, ing, runs, aux>>

\* the caller has taken the result (or the exception)
RetrieveReturn ==
    /\ ret.pc = "done"
    /\ ret' = RetIdle
    /\ UNCHANGED <<store, current_organization_id, ing, runs, aux>>

Retrieval ==
    \/ \E org \in Orgs \cup {None} : SetCurrentTrace(org)
    \/ \E q \in Queries, org \in Orgs \cup {None, ""} : RetrieveInternal(q, org)
    \/ \E q \in Queries : RetrieveTool(q)
    \/ \E ok \in BOOLEAN : EmbedQuery(ok)
    \/ \E out \in {"ok", "rpc_fails", "documents_fails"},
          order \in {"best_first", "best_last"} : SemanticSearch(out, order)
    \/ \E ok \in BOOLEAN : KeywordOrgDocs(ok)
    \/ \E out \in {"ok", "search_fails", "documents_fails"} : KeywordSearch(out)
    \/ Combine
    \/ RetrieveReturn

\* ------------------------------------------------------------------------
\* document_processing.py: process_document_endpoint
\* ------------------------------------------------------------------------
NoOutcome == [status |-> 0, detail |-> "", chunksProcessed |-> -1]

IngIdle == [pc |-> "idle", documentId |-> None, organizationId |-> None, run |-> 0,
            file_name |-> <<>>, file_type |-> "",
            temp_dir |-> FALSE, temp_file |-> FALSE, file |-> NoFile,
            langchain_docs |-> <<>>, chunks |-> <<>>, batches |-> <<>>, bi |-> 0,
            embeddings_list |-> <<>>, provider_calls |-> 0, embed_log |-> <<>>, i |-> 0, insert_calls |-> <<>>,
            delete_result |-> "none", outcome |-> NoOutcome, failed_at |-> "none",
            before |-> <<>>]

\* the rows of document d, in store order
RowsOf(st, d) == LET Keep(r) == r.document_id = d IN SelectSeq(st, Keep)

\* mutant: the delete is not restricted to the document
RowsNotOf_Unfiltered(st, d) == <<>>

\* document_sections.delete().eq("document_id", d)
RowsNotOf(st, d) == LET Keep(r) == r.document_id # d IN SelectSeq(st, Keep)

\* an HTTPException raised before the scratch directory exists
Reject(g, status, detail, where) ==
    [g EXCEPT !.pc = "done", !.outcome = [NoOutcome EXCEPT !.status = status, !.detail = detail],
              !.failed_at = where]

\* mutant: an exception inside the try block skips the removal of the scratch
\* file and directory
Fail_NoCleanup(g, status, detail, where) ==
    [g EXCEPT !.pc = "done", !.outcome = [NoOutcome EXCEPT !.status = status, !.detail = detail],
              !.failed_at = where]

\* an exception inside the try block: the finally clause removes the scratch
\* file and directory, then the HTTPException reaches the caller
Fail(g, status, detail, where) ==
    [g EXCEPT !.pc = "done", !.outcome = [NoOutcome EXCEPT !.status = status, !.detail = detail],
              !.failed_at = where, !.temp_file = FALSE, !.temp_dir = FALSE]

\* file_url with a "/documents/" part
HasStoragePath(file_url) == file_url # "no-path"

\* mutant: a record without file_url is taken for a record with a file
RecordError_NoUrlCheck(documentId) ==
    IF documentId \notin DocIds THEN [status |-> 404, detail |-> "Document not found"]
    ELSE [status |-> 0, detail |-> ""]

\* lines 39-58: the HTTPException raised for the document record; status 0: none
RecordError(documentId) ==
    IF documentId \notin DocIds THEN [status |-> 404, detail |-> "Document not found"]
    ELSE IF Documents[documentId].file_url = None
         THEN [status |-> 400, detail |-> "Document has no file URL"]
    ELSE IF ~HasStoragePath(Documents[documentId].file_url)
         THEN [status |-> 400, detail |-> "Could not extract file path from URL"]
    ELSE [status |-> 0, detail |-> ""]

\* lines 36-68: authentication, document record, storage path, mkdtemp
ProcessDocumentStart(authorization, documentId, organizationId) ==
    /\ ing.pc = "idle"
    /\ runs < MaxRuns
    /\ runs' = runs + 1
    /\ LET g == [IngIdle EXCEPT !.documentId = documentId, !.organizationId = organizationId,
                                !.run = runs + 1, !.before = RowsOf(store, documentId)]
           auth == verify_auth_token(authorization, organizationId)
           err == RecordError(documentId)
       IN  ing' = IF auth # 0 THEN Reject(g, auth, "auth", "auth")
                  ELSE IF err.status # 0 THEN Reject(g, err.status, err.detail, "record")
                  ELSE [g EXCEPT !.pc = "download", !.temp_dir = TRUE,
                                 !.file_name = Documents[documentId].name,
                                 !.file_type = Documents[documentId].file_type]
    /\ UNCHANGED <<store, current_organization_id, ret, aux>>

\* lines 70-82: download the blob and write the scratch file
Download(ok, file) ==
    /\ ing.pc = "download"
    /\ file \in Files(ing.documentId)
    /\ ing' = IF ok THEN [ing EXCEPT !.pc = "extract", !.temp_file = TRUE, !.file = file]
              ELSE Fail(ing, 500, "Failed to download file", "download")
    /\ UNCHANGED <<store, current_organization_id, ret, runs, aux>>

\* mutant: only an empty list of units counts as empty
NoTextContent_EmptyOnly(docs) == docs = <<>>

\* "not langchain_docs or all(not doc.page_content.strip() ...)"
NoTextContent(docs) == docs = <<>> \/ \A k \in 1..Len(docs) : Strip(docs[k].page_content) = <<>>

\* texts = [chunk.page_content for chunk in chunks]
TextsOf(chunks) == [k \in 1..Len(chunks) |-> chunks[k].page_content]

\* lines 214-232: the chunk list is handed to the embedding loop
Chunked(g, chunks, batches) ==
    [g EXCEPT !.pc = IF batches = <<>> THEN "delete" ELSE "embed",
              !.chunks = chunks, !.batches = batches, !.bi = 1]

\* lines 91-212
ChunkedFrom(g, chunks) == Chunked(g, chunks, BatchesFrom(TextsOf(chunks), 1))

\* lines 86-89: the result ex of the extraction and the empty check
ExtractedFrom(g, ex) ==
    IF ~ex.ok THEN Fail(g, 500, "Failed to process document", "extract")
    ELSE IF NoTextContent(ex.documents)
         THEN Fail([g EXCEPT !.langchain_docs = ex.documents], 400,
                   "No text content extracted from document", "empty")
    ELSE ChunkedFrom([g EXCEPT !.langchain_docs = ex.documents],
                     ChunksOf(ex.documents, g.file_type, g.file_name, g.documentId))

\* the state after lines 84-232
Extracted(g) == ExtractedFrom(g, extract_documents_from_file(g.file, g.file_type, g.file_name))

\* mutant: the document's sections are deleted before the embeddings exist
ExtractAndChunk_DeleteFirst ==
    /\ ing.pc = "extract"
    /\ ing' = Extracted(ing)
    /\ store' = RowsNotOf(store, ing.documentId)
    /\ UNCHANGED <<current_organization_id, ret, runs, aux>>

\* lines 84-232: extraction, the empty check, chunking, the texts to embed
ExtractAndChunk ==
    /\ ing.pc = "extract"
    /\ ing' = Extracted(ing)
    /\ UNCHANGED <<store, current_organization_id, ret, runs, aux>>

\* mutant: every error of a batch is taken for a provider-limit error
IsLimitError_Any(out) == out # "ok"

\* '"max_tokens" in error_msg.lower() or "300000" in error_msg'
IsLimitError(out) == out = "limit"

\* the provider calls of the first k sub-batches, of which call fail_sub fails
SubBatchCalls(batch, k, fail_sub) ==
    [j \in 1..k |-> [n |-> Len(SubBatch(batch, j)), sub |-> TRUE,
                     r |-> IF j = fail_sub THEN "fails" ELSE "ok"]]

\* lines 234-304: one batch is sent to the provider; after a provider-limit
\* error it is sent again in sub-batches of 50, of which sub-batch fail_sub
\* fails (0: none)
EmbedBatch(out, fail_sub) ==
    /\ ing.pc = "embed"
    /\ LET batch == ing.batches[ing.bi]
           next == IF ing.bi = Len(ing.batches) THEN "delete" ELSE "embed"
           g == [ing EXCEPT !.embed_log = Append(@, [n |-> Len(batch), sub |-> FALSE, r |-> out])]
       IN  \/ /\ out = "ok" /\ fail_sub = 0
              /\ ing' = [g EXCEPT !.pc = next, !.bi = @ + 1,
                                  !.embeddings_list = @ \o EmbedDocuments(batch),
                                  !.provider_calls = @ + 1]
           \/ /\ out # "ok" /\ ~IsLimitError(out) /\ fail_sub = 0
              /\ ing' = Fail([g EXCEPT !.provider_calls = @ + 1], 500,
                             "Failed to generate embeddings", "embed")
           \/ /\ out # "ok" /\ IsLimitError(out) /\ fail_sub = 0
              /\ ing' = [g EXCEPT !.pc = next, !.bi = @ + 1,
                                  !.embeddings_list =
                                      @ \o EmbedSubBatches(batch, SubBatchCount(batch)),
                                  !.provider_calls = @ + 1 + SubBatchCount(batch),
                                  !.embed_log = @ \o SubBatchCalls(batch, SubBatchCount(batch), 0)]
           \/ /\ out # "ok" /\ IsLimitError(out) /\ fail_sub \in 1..SubBatchCount(batch)
              /\ ing' = Fail([g EXCEPT !.provider_calls = @ + 1 + fail_sub,
                                       !.embeddings_list =
                                           @ \o EmbedSubBatches(batch, fail_sub - 1),
                                       !.embed_log = @ \o SubBatchCalls(batch, fail_sub, fail_sub)],
                             500, "Failed to generate embeddings (smaller batch)", "embed")
    /\ UNCHANGED <<store, current_organization_id, ret, runs, aux>>

\* lines 308-312: delete the document's sections; a result that carries an
\* error is logged and the run goes on
DeleteSections(out) ==
    /\ ing.pc = "delete"
    /\ \/ /\ out = "ok"
          /\ store' = RowsNotOf(store, ing.documentId)
          /\ ing' = [ing EXCEPT !.pc = "insert", !.delete_result = "ok"]
       \/ /\ out = "error"
          /\ store' = store
          /\ ing' = [ing EXCEPT !.pc = "insert", !.delete_result = "error"]
       \/ /\ out = "raises"
          /\ store' = store
          /\ ing' = Fail(ing, 500, "Failed to process document", "delete")
    /\ UNCHANGED <<current_organization_id, ret, runs, aux>>

\* the rows of one insert call: pairs i+1 .. i+n of zip(chunks, embeddings_list)
Sections(g, n) ==
    [k \in 1..n |-> [document_id |-> g.documentId,
                     content |-> g.chunks[g.i + k].page_content,
                     metadata |-> g.chunks[g.i + k].metadata,
                     embedding |-> g.embeddings_list[g.i + k],
                     run |-> g.run]]

\* lines 314-335: one insert call of the loop
InsertBatch(ok) ==
    /\ ing.pc = "insert"
    /\ LET n == NextInsertSize(ing.i, ing.chunks, ing.embeddings_list)
       IN  /\ n > 0
           /\ IF ok
              THEN /\ store' = store \o Sections(ing, n)
                   /\ ing' = [ing EXCEPT !.i = @ + n, !.insert_calls = Append(@, n)]
              ELSE /\ store' = store
                   /\ ing' = Fail(ing, 500, "Failed to insert document sections", "insert")
    /\ UNCHANGED <<current_organization_id, ret, runs, aux>>

\* lines 337-354: the loop is over; success is returned and the finally clause
\* removes the scratch file and directory
ReturnSuccess ==
    /\ ing.pc = "insert"
    /\ NextInsertSize(ing.i, ing.chunks, ing.embeddings_list) = 0
    /\ ing' = [ing EXCEPT !.pc = "done",
                          !.outcome = [status |-> 200, detail |-> "success",
                                       chunksProcessed |-> Len(ing.chunks)],
                          !.temp_file = FALSE, !.temp_dir = FALSE]
    /\ UNCHANGED <<store, current_organization_id, ret, runs, aux>>

\* the response (or the HTTPException) has reached the caller
IngestReturn ==
    /\ ing.pc = "done"
    /\ ing' = IngIdle
    /\ UNCHANGED <<store, current_organization_id, ret, runs, aux>>

Ingestion ==
    \/ \E a \in Callers, d \in DocIds \cup {"d9"}, o \in Orgs : ProcessDocumentStart(a, d, o)
    \/ \E ok \in BOOLEAN, f \in UNION {Files(d) : d \in DocIds} : Download(ok, f)
    \/ ExtractAndChunk
    \/ \E out \in {"ok", "limit", "other"}, fs \in 0..2 : EmbedBatch(out, fs)
    \/ \E out \in {"ok", "error", "raises"} : DeleteSections(out)
    \/ \E ok \in BOOLEAN : InsertBatch(ok)
    \/ ReturnSuccess
    \/ IngestReturn

\* ------------------------------------------------------------------------
\* text_utils.py: normalize_spaced_text applied to a text and to its result
\* ------------------------------------------------------------------------
NormIdle == [pc |-> "idle", text |-> <<>>, once |-> <<>>, twice |-> <<>>]

\* the texts given: every text of up to NormMaxLen of these characters
NormMaxLen == 6
NormAlphabet == {"6", "0", ".", SP, "a"}
NormSamples ==
    {FromChars(cs) : cs \in UNION {[1..n -> NormAlphabet] : n \in 0..NormMaxLen}}

\* y = normalize_spaced_text(x)
NormalizeOnce ==
    /\ norm.pc = "given"
    /\ norm' = [norm EXCEPT !.pc = "once", !.once = normalize_spaced_text(norm.text)]
    /\ UNCHANGED <<store, current_organization_id, ret, ing, runs, chat, parked, sheet>>

\* z = normalize_spaced_text(y)
NormalizeAgain ==
    /\ norm.pc = "once"
    /\ norm' = [norm EXCEPT !.pc = "twice", !.twice = normalize_spaced_text(norm.once)]
    /\ UNCHANGED <<store, current_organization_id, ret, ing, runs, chat, parked, sheet>>

Normalization == NormalizeOnce \/ NormalizeAgain

\* ------------------------------------------------------------------------
\* extraction.py: the spreadsheet branch applied to a sheet of n data rows
\* ------------------------------------------------------------------------
SheetIdle == [pc |-> "idle", n |-> 0, units |-> <<>>]

\* the sheets given: 0 to MaxSheetRows data rows
MaxSheetRows == 120

\* a spreadsheet file of n data rows
SheetOf(n) == [NoFile EXCEPT !.rows = [i \in 1..n |-> IF i % 2 = 1 THEN W_aaa ELSE W_ddd]]

\* documents = extract_documents_from_file(path, file_type, "d.xlsx")
ExtractSheet ==
    /\ sheet.pc = "given"
    /\ sheet' = [sheet EXCEPT !.pc = "extracted",
                              !.units = extract_documents_from_file(SheetOf(sheet.n), "",
                                                                     Name_xlsx).documents]
    /\ UNCHANGED <<store, current_organization_id, ret, ing, runs, chat, parked, norm>>

\* ------------------------------------------------------------------------
\* chat.py: chat_endpoint
\* ------------------------------------------------------------------------
ChatIdle == [pc |-> "idle", organizationId |-> None]

\* lines 901-914: a chat request arrives; a failed authentication is caught by
\* "except Exception" like every other error
ChatStart(authorization, organizationId) ==
    /\ chat.pc = "idle"
    /\ ret.pc = "idle"
    /\ chat' = [pc |-> IF verify_auth_token(authorization, organizationId) # 0
                       THEN "except" ELSE "set",
                organizationId |-> organizationId]
    /\ UNCHANGED <<store, current_organization_id, ret, ing, runs, parked, norm, sheet>>

\* lines 974-979: set_current_trace(trace, trace_context, request.organizationId)
ChatSetTrace ==
    /\ chat.pc = "set"
    /\ current_organization_id' = chat.organizationId
    /\ chat' = [chat EXCEPT !.pc = "agent"]
    /\ UNCHANGED <<store, ret, ing, runs, parked, norm, sheet>>

\* agent_executor.invoke: the agent calls the tool retrieve(query)
ChatTool(query) ==
    /\ chat.pc = "agent"
    /\ RetrieveTool(query)

\* agent_executor.invoke returns (ok) or raises
ChatAgentEnd(ok) ==
    /\ chat.pc = "agent"
    /\ ret.pc = "idle"
    /\ chat' = [chat EXCEPT !.pc = IF ok THEN "reset" ELSE "except"]
    /\ UNCHANGED <<store, current_organization_id, ret, ing, runs, parked, norm, sheet>>

\* lines 1055-1056 and 1098-1099: set_current_trace(None, None, None), on the
\* way to the response and in the except branch
ChatReset ==
    /\ chat.pc \in {"reset", "except"}
    /\ current_organization_id' = None
    /\ chat' = [chat EXCEPT !.pc = "done"]
    /\ UNCHANGED <<store, ret, ing, runs, parked, norm, sheet>>

\* the response (or the HTTPException) has reached the caller
ChatReturn ==
    /\ chat.pc = "done"
    /\ chat' = ChatIdle
    /\ UNCHANGED <<store, current_organization_id, ret, ing, runs, parked, norm, sheet>>

\* ------------------------------------------------------------------------
\* Two requests at a time
\* ------------------------------------------------------------------------
\* the state of a request: its call of process_document_endpoint or of
\* chat_endpoint, its call of the retriever and its context
NoRequest == [ing |-> IngIdle, ret |-> RetIdle, chat |-> ChatIdle,
              current_organization_id |-> None]

\* mutant: the organization is kept in a module global, one value for all
\* requests
Switch_GlobalOrganization ==
    /\ parked' = [ing |-> ing, ret |-> ret, chat |-> chat,
                  current_organization_id |-> parked.current_organization_id]
    /\ ing' = parked.ing
    /\ ret' = parked.ret
    /\ chat' = parked.chat
    /\ UNCHANGED <<store, current_organization_id, runs, norm, sheet>>

\* the other request goes on: the running request is parked with its locals
\* and its context (a ContextVar has one value per request context), the
\* parked one runs; the chunk store is shared
Switch ==
    /\ parked' = [ing |-> ing, ret |-> ret, chat |-> chat,
                  current_organization_id |-> current_organization_id]
    /\ ing' = parked.ing
    /\ ret' = parked.ret
    /\ chat' = parked.chat
    /\ current_organization_id' = parked.current_organization_id
    /\ UNCHANGED <<store, runs, norm, sheet>>

\* the query of the chat requests
ChatQueries == {Words(<<W_bbb, W_the, W_ccc>>)}

\* two chat requests, each with its calls of the tool
Chats ==
    \/ \E a \in {"userA", "userB"}, o \in Orgs : ChatStart(a, o)
    \/ ChatSetTrace
    \/ \E q \in ChatQueries : ChatTool(q)
    \/ \E ok \in BOOLEAN : EmbedQuery(ok)
    \/ \E out \in {"ok", "rpc_fails", "documents_fails"} : SemanticSearch(out, "best_first")
    \/ \E ok \in BOOLEAN : KeywordOrgDocs(ok)
    \/ \E out \in {"ok", "search_fails", "documents_fails"} : KeywordSearch(out)
    \/ Combine
    \/ RetrieveReturn
    \/ \E ok \in BOOLEAN : ChatAgentEnd(ok)
    \/ ChatReset
    \/ ChatReturn
    \/ Switch

\* the documents that the two workers ingest and the files of their blobs: a
\* text of one chunk and a PDF of three pages
WorkerDocs == {"d2", "d5"}
WorkerFiles ==
    {f \in Files("d2") \cup Files("d5") : f.text = Words(<<W_bbb, W_ccc>>) \/ Len(f.pages) = 3}

\* two requests at a time, each an ingestion or a query, served by two
\* workers of the service that share the chunk store
Workers ==
    \/ \E d \in WorkerDocs :
          ret.pc = "idle" /\ ProcessDocumentStart("admin", d, Documents[d].organization_id)
    \/ \E f \in WorkerFiles : Download(TRUE, f)
    \/ ExtractAndChunk
    \/ \E out \in {"ok", "limit", "other"}, fs \in 0..1 : EmbedBatch(out, fs)
    \/ \E out \in {"ok", "error", "raises"} : DeleteSections(out)
    \/ \E ok \in BOOLEAN : InsertBatch(ok)
    \/ ReturnSuccess
    \/ IngestReturn
    \/ \E q \in ChatQueries : ing.pc = "idle" /\ RetrieveInternal(q, OrgA)
    \/ EmbedQuery(TRUE)
    \/ SemanticSearch("ok", "best_first")
    \/ KeywordOrgDocs(TRUE)
    \/ \E out \in {"ok", "search_fails", "documents_fails"} : KeywordSearch(out)
    \/ Combine
    \/ RetrieveReturn
    \/ Switch

\* ------------------------------------------------------------------------
\* Initial states and specifications
\* ------------------------------------------------------------------------

Init ==
    /\ store \in InitStores
    /\ current_organization_id = None
    /\ ret = RetIdle
    /\ ing = IngIdle
    /\ runs = 0
    /\ chat = ChatIdle
    /\ parked = NoRequest
    /\ norm = NormIdle
    /\ sheet = SheetIdle

\* a text is given to the normalizer
InitNormalize ==
    /\ store = <<>>
    /\ current_organization_id = None
    /\ ret = RetIdle
    /\ ing = IngIdle
    /\ runs = 0
    /\ chat = ChatIdle
    /\ parked = NoRequest
    /\ norm \in {[NormIdle EXCEPT !.pc = "given", !.text = x] : x \in NormSamples}
    /\ sheet = SheetIdle

\* a spreadsheet is given to the extractor
InitSheet ==
    /\ store = <<>>
    /\ current_organization_id = None
    /\ ret = RetIdle
    /\ ing = IngIdle
    /\ runs = 0
    /\ chat = ChatIdle
    /\ parked = NoRequest
    /\ norm = NormIdle
    /\ sheet \in {[SheetIdle EXCEPT !.pc = "given", !.n = n] : n \in 0..MaxSheetRows}

\* the retriever, over the stores left by earlier ingestions
SpecRetrieve == Init /\ [][Retrieval]_vars

\* the ingestion endpoint
SpecIngest == Init /\ [][Ingestion]_vars

\* the ingestion endpoint; the loop over the batches goes on: a call of the
\* provider returns or raises
SpecIngestFair ==
    Init /\ [][Ingestion]_vars
         /\ WF_vars(\E out \in {"ok", "limit", "other"}, fs \in 0..2 : EmbedBatch(out, fs))

\* the normalizer, applied twice
SpecNormalize == InitNormalize /\ [][Normalization]_vars

\* the spreadsheet branch of the extractor
SpecSheet == InitSheet /\ [][ExtractSheet]_vars

\* two chat requests at a time
SpecChats == Init /\ [][Chats]_vars

\* two workers at a time
SpecWorkers == Init /\ [][Workers]_vars

\* ------------------------------------------------------------------------
\* Properties
\* ------------------------------------------------------------------------
Returned == ret.pc = "done" /\ ret.outcome = "ok"
SucceededIngest == ing.pc = "done" /\ ing.outcome.status = 200
KeyOf(doc) == Take(doc.page_content, 200)
FromKeyword(doc) == doc \in Range(ret.keyword_docs)
FromSemantic(doc) == doc \in Range(ret.semantic_docs)

\* C1: every chunk that _retrieve_internal(query, A) collects or returns, from
\* the semantic search or from the keyword search, carries the document_id of a
\* document owned by A.
C1_RetrievalScoped ==
    \A doc \in Range(ret.retrieved_docs) \cup Range(ret.semantic_docs) \cup Range(ret.keyword_docs) :
        doc.metadata.document_id \in OrgDocIds(ret.organization_id)

\* a result with keyword and semantic chunks, while the store holds a section
\* of another organization that matches a keyword and the query embedding
C1_Witness ==
    /\ Returned
    /\ \E i \in 1..Len(ret.retrieved_docs) : FromKeyword(ret.retrieved_docs[i])
    /\ \E i \in 1..Len(ret.retrieved_docs) : FromSemantic(ret.retrieved_docs[i])
    /\ \E k \in 1..Len(store) :
        /\ store[k].document_id \notin OrgDocIds(ret.organization_id)
        /\ \E j \in 1..Len(ret.keywords) : Contains(Lower(store[k].content), ret.keywords[j])
        /\ Similarity(ret.query_embedding, store[k].embedding) > Threshold

\* C2 (as claimed): a request whose document belongs to another organization
\* than the request's organizationId changes nothing in the chunk store.
C2_OnlyOwnOrganization ==
    [][ (/\ ing.documentId \in DocIds
         /\ Documents[ing.documentId].organization_id # ing.organizationId)
        => store' = store ]_vars

\* C3 (as claimed): after a successful run every row of the document was
\* written by that run, whatever the delete step reported.
C3_NoStaleRows ==
    SucceededIngest =>
        \A k \in 1..Len(store) : store[k].document_id = ing.documentId => store[k].run = ing.run

SameUnit(chunk, unit) ==
    /\ chunk.metadata.row = unit.metadata.row
    /\ chunk.metadata.row_start = unit.metadata.row_start
UnitIndex(chunk) ==
    CHOOSE k \in 1..Len(ing.langchain_docs) : SameUnit(chunk, ing.langchain_docs[k])

\* C4 (as claimed): for a non-PDF source every unit with non-empty text
\* contributes at least one chunk to the chunk list, and the chunks of an
\* earlier unit come before the chunks of a later unit.
C4_EveryUnitChunked ==
    (/\ ing.pc \in {"embed", "delete", "insert"}
     /\ \A k \in 1..Len(ing.langchain_docs) :
            ing.langchain_docs[k].metadata.extraction_method = Absent)
    => /\ \A k \in 1..Len(ing.langchain_docs) :
            Strip(ing.langchain_docs[k].page_content) # <<>>
            => \E c \in 1..Len(ing.chunks) : SameUnit(ing.chunks[c], ing.langchain_docs[k])
       /\ \A c1, c2 \in 1..Len(ing.chunks) :
            c1 < c2 => UnitIndex(ing.chunks[c1]) <= UnitIndex(ing.chunks[c2])

\* C5: the store changes only in the delete and insert steps, which come after
\* every batch has been embedded (the delete before the first insert, an insert
\* only after the delete), and a run that fails at download, extraction,
\* the empty check or embedding leaves the document's rows as they were.
C5_DeleteAfterEmbedding ==
    [][ /\ store' # store =>
            /\ ing.pc \in {"delete", "insert"}
            /\ ing.bi > Len(ing.batches)
            /\ Len(ing.embeddings_list) = Len(ing.chunks)
            /\ ing.pc = "delete" => ing.insert_calls = <<>>
            /\ ing.pc = "insert" => ing.delete_result # "none"
        /\ ing'.failed_at \in {"download", "extract", "empty", "embed"}
            => RowsOf(store', ing'.documentId) = ing'.before ]_vars

\* a re-ingestion of a document with stored rows has failed while embedding
C5_Witness ==
    /\ ing.pc = "done"
    /\ ing.failed_at = "embed"
    /\ ing.before # <<>>
    /\ RowsOf(store, ing.documentId) = ing.before

\* C6 (as claimed): only a failure to embed the query makes the call fail; a
\* failure of the semantic search leaves the call returning.
C6_OnlyEmbedFails ==
    (ret.pc = "done" /\ ret.outcome = "error") => ret.failed_at = "embed"

SemanticKept ==
    \A i \in 1..Len(ret.semantic_docs) :
        \/ \E j \in 1..Len(ret.retrieved_docs) :
                KeyOf(ret.retrieved_docs[j]) = KeyOf(ret.semantic_docs[i])
        \/ Len(ret.retrieved_docs) = 5

\* C6 (amended): a failure of the keyword search at any step does not make the
\* call fail: the call returns the keyword chunks found before the failure and
\* the semantic chunks (deduplicated, cut to 5).  The call fails exactly when
\* the embedding of the query or the semantic search has failed.
C6_KeywordFailureSuppressed ==
    (ret.pc = "done" /\ ret.organization_id \notin {None, ""})
    => /\ ret.outcome = "error" <=> ret.failed_at \in {"embed", "semantic"}
       /\ ret.outcome \in {"ok", "error"}
       /\ ret.keyword_error => ret.outcome = "ok"
       /\ ret.outcome = "ok" => SemanticKept

\* the keyword search has failed after a first hit and the call has returned
\* a chunk of the semantic search
C6_Witness ==
    /\ Returned
    /\ ret.keyword_error
    /\ ret.keyword_docs # <<>>
    /\ \E i \in 1..Len(ret.retrieved_docs) : FromSemantic(ret.retrieved_docs[i])

\* C7: a call of _retrieve_internal or of the retrieve tool without an
\* organization id ends with ValueError before any call of the embedding
\* provider, the chunk store or the document registry.
C7_MissingScopeRejected ==
    (ret.pc # "idle" /\ ret.organization_id \in {None, ""})
    => /\ ret.pc = "done"
       /\ ret.outcome = "ValueError"
       /\ ret.calls = <<>>

\* the retrieve tool was called while the context variable held no organization
C7_Witness ==
    /\ ret.pc = "done"
    /\ ret.via = "tool"
    /\ ret.outcome = "ValueError"
    /\ ret.organization_id = None

\* C8: in the returned list every chunk of the keyword search stands before
\* every chunk that came from the semantic search only.
C8_KeywordFirst ==
    Returned =>
        \A i, j \in 1..Len(ret.retrieved_docs) :
            (FromKeyword(ret.retrieved_docs[i]) /\ ~FromKeyword(ret.retrieved_docs[j])) => i < j

\* a result that holds a keyword chunk and a semantic-only chunk
C8_Witness ==
    /\ Returned
    /\ \E i, j \in 1..Len(ret.retrieved_docs) :
        /\ FromKeyword(ret.retrieved_docs[i])
        /\ FromSemantic(ret.retrieved_docs[j]) /\ ~FromKeyword(ret.retrieved_docs[j])

\* C9: no result holds two chunks whose contents agree on their first 200
\* characters.
C9_NoDuplicatePrefix ==
    \A i, j \in 1..Len(ret.retrieved_docs) :
        i # j => KeyOf(ret.retrieved_docs[i]) # KeyOf(ret.retrieved_docs[j])

\* the searches found two different contents with the same first 200
\* characters, in one list and across the two lists
C9_Witness ==
    /\ Returned
    /\ \E i, j \in 1..Len(ret.keyword_docs) :
        /\ ret.keyword_docs[i].page_content # ret.keyword_docs[j].page_content
        /\ KeyOf(ret.keyword_docs[i]) = KeyOf(ret.keyword_docs[j])
    /\ \E i \in 1..Len(ret.keyword_docs), j \in 1..Len(ret.semantic_docs) :
        KeyOf(ret.keyword_docs[i]) = KeyOf(ret.semantic_docs[j])

SourceMarks == {i \in 1..Len(ret.serialized) : ret.serialized[i] = Lit("Source: ")}

\* C10: the returned list holds at most 5 chunks, and the serialized text
\* holds one citation block per returned chunk, in the order of the list.
C10_CappedAndCited ==
    LET n == Len(ret.retrieved_docs) IN
    /\ n <= 5
    /\ Cardinality(SourceMarks) = n
    /\ Len(ret.serialized) = IF n = 0 THEN 0 ELSE 9 * n - 1
    /\ \A i \in 1..n :
        /\ ret.serialized[9 * (i - 1) + 1] = Lit("Source: ")
        /\ ret.serialized[9 * (i - 1) + 2] = Val(ret.retrieved_docs[i].metadata.source)
        /\ ret.serialized[9 * (i - 1) + 8] = Val(ret.retrieved_docs[i].page_content)

\* more than 5 different chunks were found and 5 were returned
C10_Witness ==
    /\ Returned
    /\ Len(CombineDocs(ret.keyword_docs, ret.semantic_docs)) > 5
    /\ Len(ret.retrieved_docs) = 5

\* the page named by the citation of a chunk: page, else page_number_footer,
\* else the text N/A
CitedPage(doc) ==
    IF doc.metadata.page # AbsentInt THEN Num(doc.metadata.page)
    ELSE IF doc.metadata.page_number_footer # AbsentInt THEN Num(doc.metadata.page_number_footer)
    ELSE Lit("N/A")

\* block i of the serialized text, with the given label before the page
BlockIs(i, label) ==
    LET doc == ret.retrieved_docs[i]
        b == 9 * (i - 1)
    IN  /\ ret.serialized[b + 1] = Lit("Source: ")
        /\ ret.serialized[b + 2] = Val(doc.metadata.source)
        /\ ret.serialized[b + 3] = Lit(", ")
        /\ ret.serialized[b + 4] = Lit(label)
        /\ ret.serialized[b + 5] = CitedPage(doc)
        /\ ret.serialized[b + 6] = Lit("\n")
        /\ ret.serialized[b + 7] = Lit("Content: ")
        /\ ret.serialized[b + 8] = Val(doc.page_content)
        /\ i < Len(ret.retrieved_docs) => ret.serialized[b + 9] = Lit("\n\n")

SerializedAs(label) ==
    /\ Len(ret.serialized) = IF ret.retrieved_docs = <<>> THEN 0
                             ELSE 9 * Len(ret.retrieved_docs) - 1
    /\ \A i \in 1..Len(ret.retrieved_docs) : BlockIs(i, label)

\* C11 (as claimed): every returned chunk is serialized as "Source: <name>,
\* Page: <page>", a newline, "Content: <text>", the blocks joined by a blank line.
C11_PageLabel == Returned => SerializedAs("Page: ")

\* C11 (amended): every returned chunk is serialized as "Source: <name>,
\* Pagina: <page>", a newline, "Content: <text>", where <page> is the chunk's
\* page, else its page_number_footer, else N/A; the blocks of successive chunks
\* are joined by one blank line.
C11_PaginaLabel == Returned => SerializedAs("Pagina: ")

\* a result of two or more chunks, one citing a page number and one without
\* page and footer
C11_Witness ==
    /\ Returned
    /\ \E i, j \in 1..Len(ret.retrieved_docs) :
        /\ ret.retrieved_docs[i].metadata.page # AbsentInt
        /\ ret.retrieved_docs[j].metadata.page = AbsentInt
        /\ ret.retrieved_docs[j].metadata.page_number_footer = AbsentInt

C13_EmbeddingsAligned ==
    (ing.pc \in {"delete", "insert"} \/ SucceededIngest)
    => /\ Len(ing.embeddings_list) = Len(ing.chunks)
       /\ \A i \in 1..Len(ing.chunks) :
            ing.embeddings_list[i] = Embed(ing.chunks[i].page_content)
       /\ ing.embeddings_list = EmbedDocuments(TextsOf(ing.chunks))

\* the embedding stage has ended after two batches, both of which were sent
\* again in sub-batches, one of them in two sub-batches
C13_Witness ==
    /\ ing.pc = "delete"
    /\ Len(ing.batches) = 2
    /\ Len(ing.batches[2]) > SmallerBatchSize
    /\ ing.provider_calls = 5

\* the calls that follow call k of the log are the consecutive sub-batches of
\* its batch, up to one that fails
SubBatchesFollow(k) ==
    LET n == ing.embed_log[k].n
        m == (n + 49) \div 50
        present == {j \in 1..m : k + j <= Len(ing.embed_log)}
    IN  /\ 1 \in present
        /\ \A j \in present :
            /\ ing.embed_log[k + j].sub
            /\ ing.embed_log[k + j].n = (IF n - 50 * (j - 1) < 50 THEN n - 50 * (j - 1) ELSE 50)
            /\ j > 1 => ing.embed_log[k + j - 1].r = "ok"
        /\ \/ m \in present
           \/ \E j \in present : ing.embed_log[k + j].r = "fails"

\* call k of the log failed in a way that ends the ingestion
Fatal(k) ==
    \/ ~ing.embed_log[k].sub /\ ing.embed_log[k].r = "other"
    \/ ing.embed_log[k].sub /\ ing.embed_log[k].r = "fails"

\* C14: a batch that fails with a provider-limit error is sent again as
\* consecutive sub-batches of at most 50 texts and the ingestion goes on; a
\* batch that fails with another error, and a sub-batch that fails, end the
\* ingestion with status 500 for the caller.
C14_LimitRetriedElseAbort ==
    /\ \A k \in 1..Len(ing.embed_log) :
        /\ (~ing.embed_log[k].sub /\ ing.embed_log[k].r = "limit") => SubBatchesFollow(k)
        /\ Fatal(k) => /\ k = Len(ing.embed_log)
                       /\ ing.pc = "done"
                       /\ ing.failed_at = "embed"
                       /\ ing.outcome.status = 500
    /\ ing.failed_at = "embed" => (ing.embed_log # <<>> /\ Fatal(Len(ing.embed_log)))

\* a batch of more than 50 texts met the provider limit, went through in two
\* sub-batches, and the run has succeeded
C14_Witness ==
    /\ SucceededIngest
    /\ \E k \in 1..Len(ing.embed_log) :
        /\ ing.embed_log[k].r = "limit"
        /\ ing.embed_log[k].n > 50
        /\ k + 2 <= Len(ing.embed_log)
        /\ ing.embed_log[k + 2].sub

\* the rows that the running call has stored for its document
RowsOfRun == LET Keep(r) == r.document_id = ing.documentId /\ r.run = ing.run
             IN  SelectSeq(store, Keep)

\* C15: for a PDF of N pages read page by page, the chunk list holds exactly
\* N chunks, the i-th one with actual_page = i and with the text and the
\* source of page i only; a successful run stores exactly these N chunks.
C15_OneChunkPerPage ==
    ((ing.pc \in {"embed", "delete", "insert"} \/ SucceededIngest)
      /\ BranchOf(ing.file_type, ing.file_name) = "pdf")
    => /\ Len(ing.chunks) = Len(ing.file.pages)
       /\ \A i \in 1..Len(ing.chunks) :
            /\ ing.chunks[i].metadata.actual_page = i
            /\ ing.chunks[i].page_content = normalize_spaced_text(ing.file.pages[i].text)
            /\ ing.chunks[i].metadata.document_id = ing.documentId
       /\ SucceededIngest =>
            /\ Len(RowsOfRun) = Len(ing.file.pages)
            /\ \A i \in 1..Len(RowsOfRun) :
                /\ RowsOfRun[i].metadata.actual_page = i
                /\ RowsOfRun[i].content = ing.chunks[i].page_content

\* a PDF of three or more pages, one of them blank, has been ingested
C15_Witness ==
    /\ SucceededIngest
    /\ BranchOf(ing.file_type, ing.file_name) = "pdf"
    /\ Len(ing.file.pages) >= 3
    /\ \E i \in 1..Len(ing.chunks) : ing.chunks[i].page_content = <<>>
    /\ \E i \in 1..Len(ing.chunks) : TextLen(ing.chunks[i].page_content) > 200

\* C16 (as claimed): every chunk made from a CSV file, the pieces of a split
\* row included, starts with "Bestand: <filename>" and has the file name as
\* source; a CSV of 3 rows gives between 1 and 3 chunks.
C16_CsvChunksPrefixed ==
    (ing.pc \in {"embed", "delete", "insert"}
      /\ BranchOf(ing.file_type, ing.file_name) = "csv")
    => /\ \A i \in 1..Len(ing.chunks) :
            /\ StartsWith(ing.chunks[i].page_content, BestandOf(ing.file_name))
            /\ ing.chunks[i].metadata.source = ing.file_name
       /\ Len(ing.file.rows) = 3 => Len(ing.chunks) \in 1..3

\* some unit of the extraction holds a character that is no whitespace
SomeText == \E k \in 1..Len(ing.langchain_docs) : Strip(ing.langchain_docs[k].page_content) # <<>>

\* C17: a call whose extraction gave no unit, or only units of empty or
\* whitespace text, ends with the empty-document error (status 400) without a
\* chunk, a provider call, a delete or an insert; a call gets past the check
\* only with some text.
C17_EmptyDocumentRejected ==
    /\ (ing.pc \in {"embed", "delete", "insert"} \/ SucceededIngest) => SomeText
    /\ ing.failed_at = "empty" =>
        /\ ~SomeText
        /\ ing.pc = "done"
        /\ ing.outcome.status = 400
        /\ ing.outcome.detail = "No text content extracted from document"
        /\ ing.chunks = <<>> /\ ing.batches = <<>>
        /\ ing.embed_log = <<>> /\ ing.provider_calls = 0
        /\ ing.delete_result = "none" /\ ing.insert_calls = <<>>
        /\ RowsOf(store, ing.documentId) = ing.before

\* a document with stored rows whose file now holds only whitespace was rejected
C17_Witness ==
    /\ ing.failed_at = "empty"
    /\ \E k \in 1..Len(ing.langchain_docs) : ing.langchain_docs[k].page_content # <<>>
    /\ ing.before # <<>>

\* the running call passed the authentication and its document record is
\* missing or has no file_url
NoRecordOrFile ==
    /\ ing.pc # "idle"
    /\ ing.failed_at # "auth"
    /\ \/ ing.documentId \notin DocIds
       \/ Documents[ing.documentId].file_url = None

\* the call has ended before the download, the delete and the inserts
EndedUntouched ==
    /\ ing.pc = "done"
    /\ ing.failed_at = "record"
    /\ ~ing.temp_dir /\ ~ing.temp_file /\ ing.file = NoFile
    /\ ing.delete_result = "none" /\ ing.insert_calls = <<>>
    /\ RowsOf(store, ing.documentId) = ing.before

\* C18 (as claimed): a call whose document record is missing, or has no
\* file_url, fails with the not-found error (404) without a download and
\* without a change of the chunk store.
C18_NotFound ==
    NoRecordOrFile => (EndedUntouched /\ ing.outcome.status = 404)

\* C18 (amended): such a call fails without a download and without a change
\* of the chunk store; the error is not-found (404) when the record is
\* missing and bad-request (400, "Document has no file URL") when the record
\* has no file_url.
C18_NotFoundOrNoFile ==
    NoRecordOrFile =>
        /\ EndedUntouched
        /\ ing.documentId \notin DocIds =>
            (ing.outcome.status = 404 /\ ing.outcome.detail = "Document not found")
        /\ ing.documentId \in DocIds =>
            (ing.outcome.status = 400 /\ ing.outcome.detail = "Document has no file URL")

\* a call for a document whose record has no file_url has ended
C18_Witness ==
    /\ ing.pc = "done"
    /\ ing.failed_at = "record"
    /\ ing.documentId \in DocIds
    /\ Documents[ing.documentId].file_url = None

\* ------------------------------------------------------------------------
\* C19 (as claimed): extract_footer_info_from_pdf never raises; when an error
\* occurs at any point of the extraction of a page, the result has neither
\* a page number nor a project description, so the page's unit carries its
\* own position as page and no project_description; and the PDF extraction
\* goes on: every page of the file has its unit.
\* ------------------------------------------------------------------------
FooterFailedAt(i) == ing.file.pages[i].footer_error # "none"

C19_FooterErrorYieldsNone ==
    (/\ BranchOf(ing.file_type, ing.file_name) = "pdf"
     /\ ing.langchain_docs # <<>>)
    => /\ Len(ing.langchain_docs) = Len(ing.file.pages)
       /\ \A i \in 1..Len(ing.file.pages) :
              FooterFailedAt(i) =>
                  /\ ing.langchain_docs[i].metadata.page = i
                  /\ ing.langchain_docs[i].metadata.page_number_footer = i
                  /\ ing.langchain_docs[i].metadata.project_description = AbsentText

\* ------------------------------------------------------------------------
\* C20 (as claimed): a single-page PDF whose footer holds "Page 12 of 40
\* (U+2014) Project Description: Conveyor Line 3", the label and its value
\* on one footer line or on two lines at the same height, is ingested as
\* exactly one chunk whose metadata has page = 12 and a project_description
\* that contains "Conveyor Line 3".
\* ------------------------------------------------------------------------
C20_ScenarioFooter ==
    (/\ ing.file \in ScenarioFiles
     /\ ing.pc \in {"embed", "delete", "insert"})
    => /\ Len(ing.chunks) = 1
       /\ ing.chunks[1].metadata.page = 12
       /\ ing.chunks[1].metadata.project_description # AbsentText
       /\ Contains(ing.chunks[1].metadata.project_description, T_Value)

\* ------------------------------------------------------------------------
\* C21 (as claimed): normalize_spaced_text is idempotent: normalizing the
\* result once more gives the same text, for every text.
\* ------------------------------------------------------------------------
C21_Idempotent == norm.pc = "twice" => norm.twice = norm.once

\* a call of the tool retrieve is running in request rq
ToolCallRunning(rq) == rq.ret.via = "tool" /\ rq.ret.pc # "idle"

\* the request that runs, as a record like the parked one
Running == [ing |-> ing, ret |-> ret, chat |-> chat,
            current_organization_id |-> current_organization_id]

\* C26: under any interleaving of chat requests, each call of the tool
\* retrieve searches with the organization id of its own chat request: never
\* with that of the other request, never with the None of a reset.
C26_OwnOrganization ==
    \A rq \in {Running, parked} :
        ToolCallRunning(rq) =>
            /\ rq.ret.organization_id = rq.chat.organizationId
            /\ rq.ret.organization_id \in Orgs
            /\ rq.ret.outcome # "ValueError"

\* both requests, for different organizations, are inside their tool call,
\* and the one that runs has searched the store
C26_Witness ==
    /\ ToolCallRunning(Running) /\ ToolCallRunning(parked)
    /\ chat.organizationId # parked.chat.organizationId
    /\ ret.pc = "combine" /\ parked.ret.pc = "keyword_docs"

\* a request has reset its context while the other one is before its tool call,
\* which then starts
C26_WitnessReset ==
    /\ parked.chat.pc = "done" /\ parked.current_organization_id = None
    /\ ToolCallRunning(Running) /\ ret.pc = "embed"

\* C22: under any interleaving with other ingestions and queries, a step of
\* the ingestion of document A deletes, inserts and changes no row of the
\* chunk store of another document B.
C22_OtherDocumentsUntouched ==
    [][\A d \in DocIds : d # ing.documentId => RowsOf(store', d) = RowsOf(store, d)]_vars

\* the running ingestion has deleted its old rows and written new ones while
\* the parked one, of another document, has done the same, and the store
\* holds the rows of a third document
C22_Witness ==
    /\ ing.pc = "insert" /\ ing.i > 0 /\ ing.delete_result = "ok"
    /\ parked.ing.pc = "insert" /\ parked.ing.i > 0 /\ parked.ing.delete_result = "ok"
    /\ ing.documentId # parked.ing.documentId
    /\ RowsOf(store, "d3") # <<>>
    /\ ing.before # <<>> /\ parked.ing.before # <<>>

\* request g has deleted the document's rows and has rows left to insert
Replacing(g) == g.pc = "insert" /\ NextInsertSize(g.i, g.chunks, g.embeddings_list) > 0

\* request g has reported success
Succeeded(g) == g.pc = "done" /\ g.outcome.status = 200

\* the rows of document d are the rows written by run g, all of them
HoldsRunOf(st, g) ==
    /\ \A k \in 1..Len(RowsOf(st, g.documentId)) : RowsOf(st, g.documentId)[k].run = g.run
    /\ Len(RowsOf(st, g.documentId)) = g.outcome.chunksProcessed

\* C25: two process-document requests for the same document at the same time
\* are serialized: their delete and insert steps never interleave, and after
\* both report success the store holds the chunk set of exactly one run.
C25_SameDocumentSerialized ==
    (ing.documentId = parked.ing.documentId /\ ing.pc # "idle" /\ parked.ing.pc # "idle")
    => /\ ~(Replacing(ing) /\ Replacing(parked.ing))
       /\ (Succeeded(ing) /\ Succeeded(parked.ing))
            => (HoldsRunOf(store, ing) \/ HoldsRunOf(store, parked.ing))

\* the pieces of the units k, k+1, ..: every unit is split and its pieces are
\* added once, as the loop of chat.py 1706-1762 does
RECURSIVE PiecesFrom(_, _, _, _, _)
PiecesFrom(units, k, is_csv, is_excel, documentId) ==
    IF k > Len(units) THEN <<>>
    ELSE LET page_chunks == PageChunks(units[k], is_csv, ChunkSize(is_csv), ChunkOverlap(is_csv))
         IN  [i \in 1..Len(page_chunks) |->
                 EnrichChunk(page_chunks[i], units[k], is_excel, documentId)]
             \o PiecesFrom(units, k + 1, is_csv, is_excel, documentId)

\* the pieces of the units of run g: a page of a PDF is one piece
SplitterPieces(g) ==
    LET units == TagUnits(g.langchain_docs, g.documentId, g.file_type)
        exts == ExtensionsOf(g.file_name)
    IN  IF IsPdfExtraction(units) THEN units
        ELSE PiecesFrom(units, 1, IsCsvExt(g.file_type, exts), IsExcelExt(g.file_type, exts),
                        g.documentId)

\* how many times x stands in seq
Count(seq, x) == Cardinality({k \in 1..Len(seq) : seq[k] = x})

\* the texts of the rows and of the pieces
ContentsOf(rows) == [k \in 1..Len(rows) |-> rows[k].content]

\* C23 (as claimed): a successful run stores each piece of the splitter
\* exactly once: its rows are the pieces obtained by splitting every unit,
\* and no piece is written twice.
C23_EachPieceOnce ==
    SucceededIngest =>
        LET written == ContentsOf(RowsOfRun)
            pieces == TextsOf(SplitterPieces(ing))
        IN  /\ Len(written) = Len(pieces)
            /\ \A k \in 1..Len(pieces) : Count(written, pieces[k]) = Count(pieces, pieces[k])

\* the extraction of the run's file has returned its units
UnitsExtracted ==
    /\ ing.pc \in {"embed", "delete", "insert", "done"}
    /\ ing.failed_at \notin {"auth", "record", "download", "extract"}

\* the units of the run's file give no chunk
ZeroChunks ==
    \/ ing.langchain_docs = <<>>
    \/ ChunksOf(ing.langchain_docs, ing.file_type, ing.file_name, ing.documentId) = <<>>

\* C24: a run that ends up with zero chunks never reports success and never
\* deletes the document's rows: it fails with the error "No text content
\* extracted from document" and the store is as it was.
C24_ZeroChunksFail ==
    (UnitsExtracted /\ ZeroChunks)
    => /\ ing.pc = "done" /\ ing.failed_at = "empty"
       /\ ing.outcome.status = 400
       /\ ing.outcome.detail = "No text content extracted from document"
       /\ ing.delete_result = "none" /\ ing.insert_calls = <<>>
       /\ RowsOf(store, ing.documentId) = ing.before

\* a file with units but without text has failed and the rows of an earlier
\* ingestion of the document are still there
C24_Witness ==
    /\ UnitsExtracted /\ ZeroChunks
    /\ ing.langchain_docs # <<>>
    /\ ing.before # <<>> /\ RowsOf(store, ing.documentId) = ing.before

RECURSIVE SumOf(_)
\* the sum of a sequence of numbers
SumOf(ns) == IF ns = <<>> THEN 0 ELSE Head(ns) + SumOf(Tail(ns))

\* C27: the insert stage writes the chunks in order, in calls of 1 to 10 rows
\* (every call but the last one of 10), each chunk in exactly one call, the
\* last partial batch included; chunksProcessed is the number of rows
\* inserted.
C27_InsertBatches ==
    (ing.pc = "insert" \/ SucceededIngest)
    => /\ \A k \in 1..Len(ing.insert_calls) :
            /\ ing.insert_calls[k] \in 1..InsertBatchSize
            /\ k < Len(ing.insert_calls) => ing.insert_calls[k] = InsertBatchSize
       /\ SumOf(ing.insert_calls) = ing.i
       /\ Len(RowsOfRun) = ing.i
       /\ \A k \in 1..ing.i :
            /\ RowsOfRun[k].content = ing.chunks[k].page_content
            /\ RowsOfRun[k].metadata = ing.chunks[k].metadata
            /\ RowsOfRun[k].embedding = Embed(ing.chunks[k].page_content)
       /\ SucceededIngest =>
            /\ ing.i = Len(ing.chunks)
            /\ ing.outcome.chunksProcessed = Len(RowsOfRun)

\* a run of 53 chunks has succeeded with five calls of 10 rows and one of 3
C27_Witness ==
    /\ SucceededIngest
    /\ ing.insert_calls = <<10, 10, 10, 10, 10, 3>>
    /\ ing.outcome.chunksProcessed = 53

\* C28 (as claimed): every batch of the first attempt has a combined
\* character count within 840,000, so a chunk list that exceeds the budget is
\* always sent in more than one batch.
C28_BatchesWithinBudget ==
    ing.pc \in {"embed", "delete", "insert"}
    => /\ \A b \in 1..Len(ing.batches) :
            SumLen(ing.batches[b], 1, Len(ing.batches[b])) <= MaxCharsPerBatch
       /\ SumLen(TextsOf(ing.chunks), 1, Len(ing.chunks)) > MaxCharsPerBatch
            => Len(ing.batches) > 1

\* the calls of the log made for first attempts, in order
FirstAttempts == LET IsFirst(c) == ~c.sub IN SelectSeq(ing.embed_log, IsFirst)

\* the number of sub-batch calls that follow call k of the log
SubCallsAfter(k) ==
    Cardinality({j \in (k + 1)..Len(ing.embed_log) :
                    \A h \in (k + 1)..j : ing.embed_log[h].sub})

\* the number of texts sent in the sub-batch calls that follow call k
TextsResent(k) == SumOf([h \in 1..SubCallsAfter(k) |-> ing.embed_log[k + h].n])

\* every batch is submitted once, in order; a batch is sent again only after a
\* provider-limit error, in sub-batches that hold each of its texts at most
\* once; a sub-batch that fails is the last call and the run has failed
SentAtMostTwice ==
    /\ Len(FirstAttempts) <= Len(ing.batches)
    /\ \A k \in 1..Len(FirstAttempts) : FirstAttempts[k].n = Len(ing.batches[k])
    /\ ing.provider_calls = Len(ing.embed_log)
    /\ \A k \in 1..Len(ing.embed_log) :
        /\ (~ing.embed_log[k].sub /\ SubCallsAfter(k) > 0)
            => /\ ing.embed_log[k].r = "limit"
               /\ TextsResent(k) <= ing.embed_log[k].n
        /\ (ing.embed_log[k].sub /\ ing.embed_log[k].r = "fails")
            => /\ k = Len(ing.embed_log)
               /\ ing.pc = "done" /\ ing.outcome.status = 500

\* C29: the embedding stage always terminates: each batch is submitted once
\* and, after a provider-limit failure, once more in sub-batches; no text is
\* sent more than twice, and a failing sub-batch is not subdivided again but
\* ends the run with an error.
C29_EmbeddingTerminates ==
    /\ []SentAtMostTwice
    /\ (ing.pc = "embed" ~> ing.pc # "embed")

\* a run has left the embedding stage after a second batch of 51 texts met
\* the provider limit and went through in two sub-batches
C29_Witness ==
    /\ ing.pc = "delete"
    /\ Len(ing.batches) = 2
    /\ Len(ing.embed_log) = 4
    /\ ing.embed_log[2].r = "limit" /\ ing.embed_log[2].n = 51
    /\ TextsResent(2) = 51

\* C30: for a spreadsheet of N data rows the ranges [row_start, row_end] of
\* the units are consecutive and do not overlap, hold at most 50 rows each,
\* start at row 1 and cover exactly the rows 1..N; a sheet without data rows
\* gives no unit.
C30_RowRanges ==
    sheet.pc = "extracted" =>
        LET u == sheet.units
        IN  /\ sheet.n = 0 => u = <<>>
            /\ sheet.n > 0 => /\ u # <<>>
                              /\ u[1].metadata.row_start = 1
                              /\ u[Len(u)].metadata.row_end = sheet.n
            /\ \A k \in 1..Len(u) :
                /\ u[k].metadata.row_start <= u[k].metadata.row_end
                /\ u[k].metadata.row_end - u[k].metadata.row_start + 1 <= RowsPerDocument
                /\ k < Len(u) => u[k + 1].metadata.row_start = u[k].metadata.row_end + 1

\* a sheet of 101 rows has given the units of rows 1-50, 51-100 and 101
C30_Witness ==
    /\ sheet.pc = "extracted" /\ sheet.n = 101
    /\ Len(sheet.units) = 3
    /\ sheet.units[3].metadata.row_start = 101 /\ sheet.units[3].metadata.row_end = 101

\* a sheet without data rows has given no unit
C30_WitnessEmpty == sheet.pc = "extracted" /\ sheet.n = 0 /\ sheet.units = <<>>
====
